---- MODULE Spec2Model ----
(***************************************************************************)
(* A model of the voting backend of vote-site: the vote-code lifecycle     *)
(* (verify -> solve -> submit), the challenge check used by the read       *)
(* endpoints, the phase switches, and the per-address failure counter and  *)
(* ban kept in redis.                                                      *)
(*                                                                         *)
(* Every HTTP request is a process that moves through the awaits of its    *)
(* handler: the ban middleware, the SELECT of the handler, the call of     *)
(* register_failed_ip, the commit.  Requests of different processes        *)
(* interleave between these steps, as coroutines on the event loop and     *)
(* transactions on PostgreSQL (READ COMMITTED) do.                         *)
(*                                                                         *)
(* The random source is modelled as ideal: a generated challenge is a      *)
(* 32-character string never generated before and not starting with the    *)
(* letters "awaiting".                                                     *)
(***************************************************************************)
EXTENDS Integers, Sequences, FiniteSets, TLC

----------------------------------------------------------------------------
(* Bounds of the model *)

\* number of challenges the random source hands out in one behaviour
MaxTok == 2
\* number of clock ticks in one behaviour
MaxTicks == 3
\* MAX_FAILED_ATTEMPTS as set in the environment of the voting-flow runs
EnvMaxFailed == 3
\* number of direct calls of register_failed_ip for one address in one behaviour
MaxCalls == 21
\* number of register_failed_ip calls for one address when callers overlap
MaxRaceCalls == 4
\* number of rows the admin adds to table votes in one behaviour
MaxVotes == 3
\* number of rows of table votecodes in one behaviour of the admin
MaxCodes == 5

(* Program constants *)

\* int(os.getenv("MAX_FAILED_ATTEMPTS", 10))
DefaultMaxFailed == 10
\* BAN_DURATION = timedelta(hours=48), in hours
BAN_DURATION == 48
\* range(32) in verify_vote: the length of a challenge
ChallengeLen == 32
\* len(challenge) < 3 in verify_challenge, submit_vote, get_vote_outcome
MinChallengeLen == 3
\* Field(None, ...): a rating that was not submitted
None == 0
\* a redis key without time to live (RPUSH creates the list without one)
NoTTL == -1

----------------------------------------------------------------------------
(* Strings *)

StartsWith(s, prefix) ==
    /\ Len(s) >= Len(prefix)
    /\ SubSeq(s, 1, Len(prefix)) = prefix

Digits == {"0", "1", "2", "3", "4", "5", "6", "7", "8", "9"}

\* str.isdigit()
IsDigit(s) ==
    /\ Len(s) > 0
    /\ \A i \in 1..Len(s) : SubSeq(s, i, i) \in Digits

DigitVal(d) ==
    CASE d = "0" -> 0 [] d = "1" -> 1 [] d = "2" -> 2 [] d = "3" -> 3
      [] d = "4" -> 4 [] d = "5" -> 5 [] d = "6" -> 6 [] d = "7" -> 7
      [] d = "8" -> 8 [] d = "9" -> 9

\* int(tid) of a string of digits
RECURSIVE ToInt(_)
ToInt(s) ==
    IF Len(s) = 0 THEN 0
    ELSE 10 * ToInt(SubSeq(s, 1, Len(s) - 1)) + DigitVal(SubSeq(s, Len(s), Len(s)))

\* str.strip()
RECURSIVE Strip(_)
Strip(s) ==
    IF Len(s) = 0 THEN s
    ELSE IF SubSeq(s, 1, 1) = " " THEN Strip(SubSeq(s, 2, Len(s)))
    ELSE IF SubSeq(s, Len(s), Len(s)) = " " THEN Strip(SubSeq(s, 1, Len(s) - 1))
    ELSE s

\* str.upper()
RECURSIVE Upper(_)
Upper(s) ==
    LET lower == "abcdefghijklmnopqrstuvwxyz"
        upper == "ABCDEFGHIJKLMNOPQRSTUVWXYZ"
        c == SubSeq(s, 1, 1)
        at == {i \in 1..Len(lower) : SubSeq(lower, i, i) = c}
    IN  IF Len(s) = 0 THEN s
        ELSE (IF at = {} THEN c
              ELSE LET i == CHOOSE i \in at : TRUE IN SubSeq(upper, i, i))
                 \o Upper(SubSeq(s, 2, Len(s)))

\* the i-th challenge of the random source: 32 characters of [A-Za-z0-9]
TokenTail == <<"1", "2", "3", "4", "5", "6", "7", "8", "9">>
Token(i) == "Qx7fLm2ZpR9tVb4KcW8nYd3HsJ6gAe0" \o TokenTail[i]

\* the stored form of a challenge that is not solved yet
Awaiting(challenge) == "awaiting" \o challenge

\* continuation_key of a code that was never verified (SQL NULL)
NULL == ""

----------------------------------------------------------------------------
(* The stored data *)

\* the vote codes the admin created before voting starts (code is unique)
InitialCodes == <<"ABCD1234", "EFGH5678">>
CodeIds == 1..Len(InitialCodes)

\* the teachers: 1 is enabled, 2 is disabled, any other id does not exist
TeacherIds == {1, 2}

SettingNames == {"vote_locked", "vote_public", "vote_public_tokenless"}

\* a request slot that holds no request
Idle ==
    [pc |-> "idle", op |-> "none", host |-> "", xff |-> "", vote_code |-> "",
     challenge |-> "", teacher_id |-> 0, vote_data |-> <<>>, row |-> 0,
     token |-> "", resp |-> "none", fails |-> 0, attempts |-> 0,
     ban_until |-> 0, peers |-> {}, retry |-> None, data |-> <<>>]

Procs == {1, 2}

VARIABLES
    votecodes,            \* table votecodes: id -> [code, used, disabled, continuation_key]
    teachers,             \* table teachers: id -> [disabled]
    settings,             \* table settings: name -> enabled
    votes,                \* table votes: the rows in insertion order
    failed_ip,            \* redis lists failed_ip:<ip>
    banned_ip,            \* redis strings banned_ip:<ip>
    cache,                \* redis keys fastapi-cache:...: the cached responses
    now,                  \* datetime.utcnow(), in hours
    MAX_FAILED_ATTEMPTS,  \* the threshold read from the environment at import
    redis_up,             \* whether the redis server answers
    issued,               \* how many challenges the random source has produced
    req,                  \* the requests in flight: process -> its locals
    hist                  \* history: what has happened so far (not program state)

vars == <<votecodes, teachers, settings, votes, failed_ip, banned_ip, cache, now,
          MAX_FAILED_ATTEMPTS, redis_up, issued, req, hist>>
dbVars == <<votecodes, teachers, settings, votes>>
redisVars == <<failed_ip, banned_ip, cache>>
envVars == <<now, MAX_FAILED_ATTEMPTS, redis_up>>

----------------------------------------------------------------------------
(* redis, as far as anti_abuse.py uses it.  A list value is                *)
(* [list, ttl], a string value is <<>> (no key) or <<[val, ttl]>>.         *)

NoList == [list |-> <<>>, ttl |-> NoTTL]

ListLive(rec, t) == rec.list # <<>> /\ (rec.ttl = NoTTL \/ t < rec.ttl)

RPUSH(rec, v, t) ==
    IF ListLive(rec, t) THEN [rec EXCEPT !.list = Append(@, v)]
    ELSE [list |-> <<v>>, ttl |-> NoTTL]

EXPIRE(rec, seconds, t) ==
    IF ListLive(rec, t) THEN [rec EXCEPT !.ttl = t + seconds] ELSE rec

LRANGE(rec, t) == IF ListLive(rec, t) THEN rec.list ELSE <<>>

GET(str, t) == IF str # <<>> /\ t < str[1].ttl THEN <<str[1].val>> ELSE <<>>

SET(v, ex, t) == <<[val |-> v, ttl |-> t + ex]>>

----------------------------------------------------------------------------
(* anti_abuse.py *)

\* is_ip_banned without the comparison of the stored time with utcnow()
is_ip_banned_any_record(str, t) ==
    LET ban == GET(str, t) IN
    IF ban # <<>>
    THEN [banned |-> TRUE, retry |-> ban[1] - t, record |-> str]
    ELSE [banned |-> FALSE, retry |-> None, record |-> str]

\* is_ip_banned: the answer (banned, retry) and the ban record it leaves
is_ip_banned(str, t) ==
    LET ban == GET(str, t) IN
    IF ban # <<>>
    THEN IF t < ban[1]
         THEN [banned |-> TRUE, retry |-> ban[1] - t, record |-> str]
         ELSE [banned |-> FALSE, retry |-> None, record |-> <<>>]
    ELSE [banned |-> FALSE, retry |-> None, record |-> str]

\* register_failed_ip banning only above the threshold (> for >=)
register_failed_ip_above(list, str, t, max) ==
    LET pushed   == RPUSH(list, t, t)
        expiring == EXPIRE(pushed, BAN_DURATION, t)
        attempts == LRANGE(expiring, t)
    IN  IF Len(attempts) > max
        THEN [ret |-> TRUE, list |-> NoList,
              ban |-> SET(t + BAN_DURATION, BAN_DURATION, t)]
        ELSE [ret |-> FALSE, list |-> expiring, ban |-> str]

\* register_failed_ip run without interruption: what it returns and the
\* failure list and ban record it leaves
register_failed_ip(list, str, t, max) ==
    LET pushed   == RPUSH(list, t, t)
        expiring == EXPIRE(pushed, BAN_DURATION, t)
        attempts == LRANGE(expiring, t)
    IN  IF Len(attempts) >= max
        THEN [ret |-> TRUE, list |-> NoList,
              ban |-> SET(t + BAN_DURATION, BAN_DURATION, t)]
        ELSE [ret |-> FALSE, list |-> expiring, ban |-> str]

\* the address ban_middleware looks up
MiddlewareIp(r) == IF r.xff # "" THEN r.xff ELSE r.host

----------------------------------------------------------------------------
(* Requests *)

\* the locals of process p become those of r, its other locals as they are
Goto(p, pc, resp) == req' = [req EXCEPT ![p].pc = pc, ![p].resp = resp]

\* the SELECT without its condition on disabled
RowsWithKey_any_state(key, check_used) ==
    {id \in CodeIds :
        /\ votecodes[id].continuation_key = key
        /\ (check_used => ~votecodes[id].used)}

\* the rows a SELECT ... WHERE continuation_key == key AND disabled IS FALSE
\* finds (check_used adds: AND used IS FALSE)
RowsWithKey(key, check_used) ==
    {id \in CodeIds :
        /\ votecodes[id].continuation_key = key
        /\ ~votecodes[id].disabled
        /\ (check_used => ~votecodes[id].used)}

\* the verify requests that will still draw a challenge
Drawing == {q \in Procs : req[q].op = "verify" /\ req[q].pc = "handler"}

\* ban_middleware: a request arrives at an idle slot and passes the ban
\* check, or is answered 403 with the remaining ban time
ban_middleware(p, r) ==
    /\ req[p].pc = "idle"
    /\ redis_up
    /\ r.op = "verify" => issued + Cardinality(Drawing) < MaxTok
    /\ LET ip == MiddlewareIp(r)
           banned == is_ip_banned(banned_ip[ip], now)
       IN  /\ banned_ip' = [banned_ip EXCEPT ![ip] = banned.record]
           /\ req' = [req EXCEPT ![p] =
                        IF banned.banned
                        THEN [r EXCEPT !.pc = "done", !.resp = "Banned",
                                       !.retry = banned.retry]
                        ELSE [r EXCEPT !.pc = "handler"]]
    /\ UNCHANGED <<dbVars, cache, failed_ip, envVars, issued, hist>>

\* await register_failed_ip(request.client.host) on an error path, and the
\* return of the error response that follows it
register_failed(p) ==
    /\ req[p].pc = "rf"
    /\ redis_up
    /\ LET ip == req[p].host
           out == register_failed_ip(failed_ip[ip], banned_ip[ip], now,
                                     MAX_FAILED_ATTEMPTS)
       IN  /\ failed_ip' = [failed_ip EXCEPT ![ip] = out.list]
           /\ banned_ip' = [banned_ip EXCEPT ![ip] = out.ban]
    /\ req' = [req EXCEPT ![p].pc = "done", ![p].fails = @ + 1]
    /\ UNCHANGED <<dbVars, cache, envVars, issued, hist>>

\* the response has been sent: the slot is free again
Return(p) ==
    /\ req[p].pc = "done"
    /\ req' = [req EXCEPT ![p] = Idle]
    /\ UNCHANGED <<dbVars, redisVars, envVars, issued, hist>>

----------------------------------------------------------------------------
(* POST /vote/verify *)

\* verify_vote with the test of continuation_key placed before that of used
verify_vote_check_key_first(found, vote) ==
    IF found = {} THEN "InvalidCode"
    ELSE IF vote.continuation_key # NULL
            /\ ~StartsWith(vote.continuation_key, "awaiting")
         THEN "CodeAlreadyVerified"
    ELSE IF vote.used THEN "CodeAlreadyUsed"
    ELSE "ok"

\* what verify_vote decides from the row it selected (found = {} : no row)
verify_vote_check(found, vote) ==
    IF found = {} THEN "InvalidCode"
    ELSE IF vote.used THEN "CodeAlreadyUsed"
    ELSE IF vote.continuation_key # NULL
            /\ ~StartsWith(vote.continuation_key, "awaiting")
         THEN "CodeAlreadyVerified"
    ELSE "ok"

\* the error paths of verify_vote that call register_failed_ip
verify_vote_registers(kind) == kind \in {"InvalidCode", "CodeAlreadyVerified"}

\* the SELECT of verify_vote and the branches after it; on the success path a
\* challenge is drawn and the commit is still to come
verify_vote_select(p) ==
    /\ req[p].pc = "handler" /\ req[p].op = "verify"
    /\ LET vote_code == Strip(req[p].vote_code)
           found == {id \in CodeIds : votecodes[id].code = vote_code
                                      /\ ~votecodes[id].disabled}
       IN  \E id \in (IF found = {} THEN {0} ELSE found) :
             LET kind == verify_vote_check(found, IF id = 0 THEN Idle ELSE votecodes[id])
             IN  IF kind = "ok"
                 THEN /\ issued' = issued + 1
                      /\ req' = [req EXCEPT ![p].pc = "commit", ![p].row = id,
                                            ![p].token = Token(issued + 1)]
                 ELSE /\ issued' = issued
                      /\ Goto(p, IF verify_vote_registers(kind) THEN "rf" ELSE "done", kind)
    /\ UNCHANGED <<dbVars, redisVars, envVars, hist>>

\* vote.continuation_key = "awaiting"+challenge; await session.commit()
verify_vote_commit(p) ==
    /\ req[p].pc = "commit" /\ req[p].op = "verify"
    /\ votecodes' = [votecodes EXCEPT
                       ![req[p].row].continuation_key = Awaiting(req[p].token)]
    /\ hist' = [hist EXCEPT !.returned = @ \cup {req[p].token},
                            !.latest[req[p].row] = req[p].token]
    /\ Goto(p, "done", "ok")
    /\ UNCHANGED <<teachers, settings, votes, redisVars, envVars, issued>>

----------------------------------------------------------------------------
(* verify_challenge, POST /vote/solve, GET /vote/get_teachers *)

\* extract_challenge_from_header, the dependency of solve, get_teachers,
\* submit and get_vote_outcome: a request with neither a Bearer token nor a
\* challenge query parameter (challenge "") is answered 401 before the
\* handler runs
extract_challenge_from_header(p) ==
    /\ req[p].pc = "handler"
    /\ req[p].op \in {"solve", "get_teachers", "submit", "get_vote_outcome"}
    /\ req[p].challenge = ""
    /\ Goto(p, "done", "MissingAuthorization")
    /\ UNCHANGED <<dbVars, redisVars, envVars, issued, hist>>

\* the value verify_challenge looks for in continuation_key
ChallengeKey(challenge, awaiting) ==
    IF awaiting THEN Awaiting(challenge) ELSE challenge

\* verify_challenge looking only for the "awaiting" prefix when awaiting
verify_challenge_rows_any_awaiting(challenge, awaiting, check_used) ==
    IF Len(challenge) < MinChallengeLen THEN {}
    ELSE IF awaiting
         THEN {id \in CodeIds : /\ StartsWith(votecodes[id].continuation_key, "awaiting")
                                /\ ~votecodes[id].disabled}
         ELSE RowsWithKey(challenge, check_used)

\* verify_challenge seeing also the key a verify in flight has assigned but
\* not committed yet
verify_challenge_rows_dirty(challenge, awaiting, check_used) ==
    IF Len(challenge) < MinChallengeLen THEN {}
    ELSE RowsWithKey(ChallengeKey(challenge, awaiting), check_used)
           \cup {req[q].row : q \in {q \in Procs :
                                        /\ awaiting
                                        /\ req[q].op = "verify"
                                        /\ req[q].pc = "commit"
                                        /\ req[q].token = challenge}}

\* verify_challenge accepting, when awaiting, the key without the prefix too
verify_challenge_rows_bare(challenge, awaiting, check_used) ==
    IF Len(challenge) < MinChallengeLen THEN {}
    ELSE RowsWithKey(ChallengeKey(challenge, awaiting), check_used)
           \cup RowsWithKey(challenge, check_used)

\* the rows verify_challenge accepts; {} makes it answer "Invalid challenge."
verify_challenge_rows(challenge, awaiting, check_used) ==
    IF Len(challenge) < MinChallengeLen THEN {}
    ELSE RowsWithKey(ChallengeKey(challenge, awaiting), check_used)

\* solve_vote up to the SELECT of verify_challenge(awaiting=True)
solve_vote_select(p) ==
    /\ req[p].pc = "handler" /\ req[p].op = "solve"
    /\ req[p].challenge # ""
    /\ LET rows == verify_challenge_rows(req[p].challenge, TRUE, FALSE)
       IN  IF rows = {} THEN Goto(p, "rf", "InvalidChallenge")
           ELSE \E id \in rows :
                  req' = [req EXCEPT ![p].pc = "commit", ![p].row = id]
    /\ UNCHANGED <<dbVars, redisVars, envVars, issued, hist>>

\* the UPDATE of solve without its WHERE id = ...: every row gets the key
solve_vote_commit_every_row(p) ==
    /\ req[p].pc = "commit" /\ req[p].op = "solve"
    /\ votecodes' = [id \in CodeIds |->
                       [votecodes[id] EXCEPT !.continuation_key = req[p].challenge]]
    /\ hist' = [hist EXCEPT !.solved = @ \cup {req[p].row}]
    /\ Goto(p, "done", "ok")
    /\ UNCHANGED <<teachers, settings, votes, redisVars, envVars, issued>>

\* vote_record.continuation_key = challenge; await session.commit(); then
\* solve_vote returns the teachers
solve_vote_commit(p) ==
    /\ req[p].pc = "commit" /\ req[p].op = "solve"
    /\ votecodes' = [votecodes EXCEPT
                       ![req[p].row].continuation_key = req[p].challenge]
    /\ hist' = [hist EXCEPT !.solved = @ \cup {req[p].row}]
    /\ Goto(p, "done", "ok")
    /\ UNCHANGED <<teachers, settings, votes, redisVars, envVars, issued>>

\* get_teachers: verify_challenge(challenge) unless vote_public_tokenless
get_teachers(p) ==
    /\ req[p].pc = "handler" /\ req[p].op = "get_teachers"
    /\ req[p].challenge # ""
    /\ IF ~settings["vote_public_tokenless"]
          /\ verify_challenge_rows(req[p].challenge, FALSE, FALSE) = {}
       THEN Goto(p, "rf", "InvalidChallenge")
       ELSE Goto(p, "done", "ok")
    /\ UNCHANGED <<dbVars, redisVars, envVars, issued, hist>>

----------------------------------------------------------------------------
(* POST /vote/submit.  vote_data is the JSON object in the order of its     *)
(* keys: a sequence of [tid, overall], no key twice.                        *)

\* [int(tid) for tid in vote_data.keys() if tid.isdigit()]
RECURSIVE DigitKeys(_)
DigitKeys(vote_data) ==
    IF vote_data = <<>> THEN <<>>
    ELSE LET rest == DigitKeys(Tail(vote_data)) IN
         IF IsDigit(Head(vote_data).tid)
         THEN <<ToInt(Head(vote_data).tid)>> \o rest
         ELSE rest

\* {t.id for t in teachers where id in teacher_ids and not disabled}
ValidTeachers(teacher_ids) ==
    {t \in DOMAIN teachers : /\ \E i \in 1..Len(teacher_ids) : teacher_ids[i] = t
                        /\ ~teachers[t].disabled}

\* the for loop over vote_data.items(): the first entry it rejects decides
RECURSIVE SubmissionLoop(_)
SubmissionLoop(vote_data) ==
    IF vote_data = <<>> THEN "ok"
    ELSE IF ~IsDigit(Head(vote_data).tid) THEN "InvalidTeacherId"
    ELSE IF Head(vote_data).overall = None THEN "MissingRequiredField"
    ELSE SubmissionLoop(Tail(vote_data))

\* submit_vote without the comparison of valid_teachers with teacher_ids
submit_vote_check_any_teacher(rows, vote, challenge, vote_data) ==
    IF rows = {} \/ vote.used \/ Len(challenge) < MinChallengeLen
    THEN "InvalidChallenge"
    ELSE IF settings["vote_locked"] THEN "VotingLocked"
    ELSE SubmissionLoop(vote_data)

\* submit_vote with the test of vote_locked after the checks of the payload
submit_vote_check_lock_last(rows, vote, challenge, vote_data) ==
    IF rows = {} \/ vote.used \/ Len(challenge) < MinChallengeLen
    THEN "InvalidChallenge"
    ELSE IF Cardinality(ValidTeachers(DigitKeys(vote_data)))
              # Len(DigitKeys(vote_data))
         THEN "UnknownOrDisabledTeacher"
    ELSE IF SubmissionLoop(vote_data) # "ok" THEN SubmissionLoop(vote_data)
    ELSE IF settings["vote_locked"] THEN "VotingLocked"
    ELSE "ok"

\* submit_vote without the test of vote.used
submit_vote_check_no_used(rows, vote, challenge, vote_data) ==
    IF rows = {} \/ Len(challenge) < MinChallengeLen
    THEN "InvalidChallenge"
    ELSE IF settings["vote_locked"] THEN "VotingLocked"
    ELSE IF Cardinality(ValidTeachers(DigitKeys(vote_data)))
              # Len(DigitKeys(vote_data))
         THEN "UnknownOrDisabledTeacher"
    ELSE SubmissionLoop(vote_data)

\* what submit_vote decides before it commits (rows: the result of its
\* SELECT, vote: the first of them)
submit_vote_check(rows, vote, challenge, vote_data) ==
    IF rows = {} \/ vote.used \/ Len(challenge) < MinChallengeLen
    THEN "InvalidChallenge"
    ELSE IF settings["vote_locked"] THEN "VotingLocked"
    ELSE IF Cardinality(ValidTeachers(DigitKeys(vote_data)))
              # Len(DigitKeys(vote_data))
         THEN "UnknownOrDisabledTeacher"
    ELSE SubmissionLoop(vote_data)

\* submit_vote calling register_failed_ip on every error path
submit_vote_registers_all(kind) == kind # "ok"

\* the error paths of submit_vote that call register_failed_ip: none
submit_vote_registers(kind) == FALSE

\* the rating columns of table votes (of the ten, the required one and one
\* of the optional ones)
votes_model_fields == {"overall", "humor"}

\* Votes(**vote_kwargs) for every entry of vote_data: a rating the entry
\* does not give is stored as NULL, and so is ip_address, which vote_kwargs
\* never holds
NewVotes(vote_data) ==
    [i \in 1..Len(vote_data) |->
        [teacher_id |-> ToInt(vote_data[i].tid), overall |-> vote_data[i].overall,
         humor |-> IF "humor" \in DOMAIN vote_data[i]
                   THEN vote_data[i].humor ELSE None,
         ip_address |-> NULL]]

\* submit_vote up to the commit: the SELECTs and the checks
submit_vote_select(p) ==
    /\ req[p].pc = "handler" /\ req[p].op = "submit"
    /\ req[p].challenge # ""
    /\ LET rows == RowsWithKey(req[p].challenge, FALSE)
       IN  \E id \in (IF rows = {} THEN {0} ELSE rows) :
             LET kind == submit_vote_check(rows, IF id = 0 THEN Idle ELSE votecodes[id],
                                           req[p].challenge, req[p].vote_data)
             IN  IF kind = "ok"
                 THEN req' = [req EXCEPT ![p].pc = "commit", ![p].row = id]
                 ELSE Goto(p, IF submit_vote_registers(kind) THEN "rf" ELSE "done", kind)
    /\ UNCHANGED <<dbVars, redisVars, envVars, issued, hist>>

\* what the UPDATE of submit_vote writes: used = TRUE, nothing else
MarkUsed(vote) == [vote EXCEPT !.used = TRUE]

\* a submit that stores request.client.host in the rows' ip_address
submit_vote_commit_with_address(p) ==
    /\ req[p].pc = "commit" /\ req[p].op = "submit"
    /\ votes' = votes \o [i \in 1..Len(req[p].vote_data) |->
                            [NewVotes(req[p].vote_data)[i]
                                EXCEPT !.ip_address = req[p].host]]
    /\ votecodes' = [votecodes EXCEPT ![req[p].row] = MarkUsed(@)]
    /\ hist' = [hist EXCEPT !.batches[req[p].row] = @ + 1,
                            !.submitted = @ \cup {req[p].challenge}]
    /\ Goto(p, "done", "ok")
    /\ UNCHANGED <<teachers, settings, redisVars, envVars, issued>>

\* vote.used = True; await session.commit(): the Votes rows and the flag
\* are stored together
submit_vote_commit(p) ==
    /\ req[p].pc = "commit" /\ req[p].op = "submit"
    /\ votes' = votes \o NewVotes(req[p].vote_data)
    /\ votecodes' = [votecodes EXCEPT ![req[p].row] = MarkUsed(@)]
    /\ hist' = [hist EXCEPT !.batches[req[p].row] = @ + 1,
                            !.submitted = @ \cup {req[p].challenge}]
    /\ Goto(p, "done", "ok")
    /\ UNCHANGED <<teachers, settings, redisVars, envVars, issued>>

\* the commit raises and is not rolled back: the flag stays set
submit_vote_commit_fails_no_rollback(p) ==
    /\ req[p].pc = "commit" /\ req[p].op = "submit"
    /\ votecodes' = [votecodes EXCEPT ![req[p].row] = MarkUsed(@)]
    /\ Goto(p, "done", "StorageError")
    /\ UNCHANGED <<teachers, settings, votes, redisVars, envVars, issued, hist>>

\* the commit raises: session.rollback(), "Error submitting votes."
submit_vote_commit_fails(p) ==
    /\ req[p].pc = "commit" /\ req[p].op = "submit"
    /\ Goto(p, "done", "StorageError")
    /\ UNCHANGED <<dbVars, redisVars, envVars, issued, hist>>

----------------------------------------------------------------------------
(* GET /get_vote_outcome *)

\* what get_vote_outcome decides when the settings table holds conf
get_vote_outcome_check_under(conf, rows, vote, challenge, teacher_id) ==
    IF ~conf["vote_public_tokenless"]
       /\ (rows = {} \/ Len(challenge) < MinChallengeLen)
    THEN "InvalidChallenge"
    ELSE IF ~conf["vote_public_tokenless"]
            /\ ~vote.used /\ ~conf["vote_locked"]
    THEN "VoteFirst"
    ELSE IF ~conf["vote_public"] THEN "NotYetPublic"
    ELSE IF teacher_id \notin DOMAIN teachers \/ teachers[teacher_id].disabled
    THEN "TeacherNotFound"
    ELSE "ok"

\* what get_vote_outcome decides (rows: the result of its SELECT, vote: the
\* first of them; neither is read when vote_public_tokenless is enabled)
get_vote_outcome_check(rows, vote, challenge, teacher_id) ==
    get_vote_outcome_check_under(settings, rows, vote, challenge, teacher_id)

\* the error paths of get_vote_outcome that call register_failed_ip
get_vote_outcome_registers(kind) == kind = "InvalidChallenge"

\* sum(values)
RECURSIVE Sum(_)
Sum(values) == IF values = <<>> THEN 0 ELSE Head(values) + Sum(Tail(values))

\* the averages dividing by the number of the teacher's rows
averages_over_all_rows(teacher_id) ==
    LET rows == SelectSeq(votes, LAMBDA v : v.teacher_id = teacher_id)
    IN  [field_name \in votes_model_fields |->
           LET given == SelectSeq(rows, LAMBDA v : v[field_name] # None)
               values == [i \in 1..Len(given) |-> given[i][field_name]]
           IN  IF values # <<>> THEN <<Sum(values), Len(rows)>> ELSE <<>>]

\* the averages get_vote_outcome returns for a teacher: for every rating
\* column sum(values) / len(values) over the values that are not None, as
\* the pair <<sum, len>> that stands for the quotient, or None (<<>>) when
\* there is no such value
averages(teacher_id) ==
    LET rows == SelectSeq(votes, LAMBDA v : v.teacher_id = teacher_id)
    IN  [field_name \in votes_model_fields |->
           LET given == SelectSeq(rows, LAMBDA v : v[field_name] # None)
               values == [i \in 1..Len(given) |-> given[i][field_name]]
           IN  IF values # <<>> THEN <<Sum(values), Len(values)>> ELSE <<>>]

get_vote_outcome(p) ==
    /\ req[p].pc = "handler" /\ req[p].op = "get_vote_outcome"
    /\ req[p].challenge # ""
    /\ LET rows == RowsWithKey(req[p].challenge, FALSE)
       IN  \E id \in (IF rows = {} THEN {0} ELSE rows) :
             LET kind == get_vote_outcome_check(rows,
                             IF id = 0 THEN Idle ELSE votecodes[id],
                             req[p].challenge, req[p].teacher_id)
             IN  req' = [req EXCEPT
                           ![p].pc = IF get_vote_outcome_registers(kind)
                                     THEN "rf" ELSE "done",
                           ![p].resp = kind,
                           ![p].data = IF kind = "ok"
                                       THEN averages(req[p].teacher_id)
                                       ELSE <<>>]
    /\ UNCHANGED <<dbVars, redisVars, envVars, issued, hist>>

----------------------------------------------------------------------------
(* @cache(expire=600) on get_teachers and get_vote_outcome.  The key is    *)
(* built from the endpoint and its arguments other than the request; an    *)
(* entry lives 600 seconds, which is less than the hour the clock counts   *)
(* in, so it is live as long as the clock has not moved.                   *)

\* the decorator finds a live entry for the request and returns the stored
\* response; the endpoint function is not called
cache_get(p) ==
    /\ req[p].pc = "handler"
    /\ req[p].op \in {"get_teachers", "get_vote_outcome"}
    /\ req[p].challenge # ""
    /\ \E e \in cache :
          /\ e.op = req[p].op /\ e.challenge = req[p].challenge
          /\ e.teacher_id = req[p].teacher_id
          /\ now - e.at < 1
          /\ req' = [req EXCEPT ![p].pc = "done", ![p].resp = e.resp,
                                ![p].data = e.data]
    /\ UNCHANGED <<dbVars, redisVars, envVars, issued, hist>>

\* the endpoint function has returned (after a miss): the decorator stores
\* its response, whatever the status, under the request's key
cache_set(p) ==
    /\ req[p].pc = "done"
    /\ req[p].op \in {"get_teachers", "get_vote_outcome"}
    /\ req[p].resp \notin {"Banned", "MissingAuthorization"}
    /\ LET same == {e \in cache :
                       /\ e.op = req[p].op /\ e.challenge = req[p].challenge
                       /\ e.teacher_id = req[p].teacher_id}
       IN  /\ \A e \in same : now - e.at >= 1
           /\ cache' = (cache \ same) \cup
                  {[op |-> req[p].op, challenge |-> req[p].challenge,
                    teacher_id |-> req[p].teacher_id, resp |-> req[p].resp,
                    data |-> req[p].data, at |-> now]}
    /\ UNCHANGED <<dbVars, failed_ip, banned_ip, envVars, issued, req, hist>>

----------------------------------------------------------------------------
(* The admin and the clock *)

\* POST /disable_votecode: disabled = not enable, for the row of a code
disable_votecode(id, enable) ==
    /\ votecodes[id].disabled = enable
    /\ votecodes' = [votecodes EXCEPT ![id].disabled = ~enable]
    /\ UNCHANGED <<teachers, settings, votes, redisVars, envVars, issued, req, hist>>

\* POST /add_vote without the ip_address parameter: the admin stores one
\* vote for an enabled teacher; with no rating at all the request is
\* refused, without overall the INSERT fails
add_vote(teacher_id, vote_data) ==
    /\ Len(votes) < MaxVotes
    /\ \E field_name \in votes_model_fields : vote_data[field_name] # None
    /\ teacher_id \in DOMAIN teachers /\ ~teachers[teacher_id].disabled
    /\ vote_data.overall # None
    /\ votes' = Append(votes, [teacher_id |-> teacher_id,
                               overall |-> vote_data.overall,
                               humor |-> vote_data.humor,
                               ip_address |-> NULL])
    /\ UNCHANGED <<votecodes, teachers, settings, redisVars, envVars, issued, req, hist>>

\* POST /disable_all_votescodes: every row with disabled = false, used or
\* not, gets disabled = true
disable_votes_for_teacher(really_sure) ==
    /\ really_sure
    /\ \E id \in CodeIds : ~votecodes[id].disabled
    /\ votecodes' = [id \in CodeIds |-> [votecodes[id] EXCEPT !.disabled = TRUE]]
    /\ UNCHANGED <<teachers, settings, votes, redisVars, envVars, issued, req, hist>>

\* POST /admin/db/edit_row on table settings: a phase switch is set
edit_setting(name, enabled) ==
    /\ settings[name] # enabled
    /\ settings' = [settings EXCEPT ![name] = enabled]
    /\ UNCHANGED <<votecodes, teachers, votes, redisVars, envVars, issued, req, hist>>

\* half a ban duration passes
Tick ==
    /\ now < MaxTicks * (BAN_DURATION \div 2)
    /\ now' = now + BAN_DURATION \div 2
    /\ UNCHANGED <<dbVars, redisVars, MAX_FAILED_ATTEMPTS, redis_up, issued, req, hist>>

----------------------------------------------------------------------------
(* What the clients send *)

Hosts == {"10.0.0.1"}

\* the addresses redis may hold keys for: those of the voters, and the one
\* main.py resets at a development start
Addresses == Hosts \cup {"127.0.0.1"}

\* vote codes typed by a voter: the two codes, one with blanks around it,
\* and a string that is no code
TypedCodes == {InitialCodes[1], InitialCodes[2], " ABCD1234 ", "ZZZZ0000"}

\* challenges presented: every challenge there may be, bare and in the
\* stored "awaiting" form, and a string of two characters
Challenges ==
    {Token(i) : i \in 1..MaxTok} \cup {Awaiting(Token(i)) : i \in 1..MaxTok}
        \cup {"ab"}

\* bodies of POST /vote/submit
Payloads ==
    { <<[tid |-> "1", overall |-> 7]>>,
      <<[tid |-> "2", overall |-> 5]>>,
      <<[tid |-> "1", overall |-> None]>>,
      <<[tid |-> "x", overall |-> 7]>> }

Request(op, host, vote_code, challenge, teacher_id, vote_data) ==
    [Idle EXCEPT !.op = op, !.host = host, !.vote_code = vote_code,
                 !.challenge = challenge, !.teacher_id = teacher_id,
                 !.vote_data = vote_data]

VerifyRequests == {Request("verify", h, c, "", 0, <<>>) : h \in Hosts, c \in TypedCodes}
SolveRequests == {Request("solve", h, "", ch, 0, <<>>) : h \in Hosts, ch \in Challenges}
TeachersRequests ==
    {Request("get_teachers", h, "", ch, 0, <<>>) : h \in Hosts, ch \in Challenges}
OutcomeRequests ==
    {Request("get_vote_outcome", h, "", ch, t, <<>>) :
        h \in Hosts, ch \in Challenges, t \in TeacherIds}
SubmitRequests ==
    {Request("submit", h, "", ch, 0, d) : h \in Hosts, ch \in Challenges, d \in Payloads}

----------------------------------------------------------------------------
(* The voting flow under concurrent requests *)

\* nothing has happened yet.  batches: the submit transactions committed
\* for each vote code; submitted: the challenges a submit succeeded with;
\* solved: the vote codes a solve succeeded for; returned: the challenges
\* verify has returned; latest: the last of them for each vote code;
\* calls, last, ret, steady: for each address the number of direct
\* register_failed_ip calls, the time and result of the last one, and whether
\* each came less than BAN_DURATION after the one before; seen: the last
\* answer of a direct is_ip_banned call; bans: how often a ban record was
\* written; banned_at: when the last one was written; fresh: the calls
\* since the last reset_ip_ban
NoHistory ==
    [batches |-> [id \in CodeIds |-> 0], submitted |-> {}, solved |-> {},
     returned |-> {}, latest |-> [id \in CodeIds |-> ""],
     calls |-> [ip \in Addresses |-> 0], last |-> [ip \in Addresses |-> 0],
     ret |-> [ip \in Addresses |-> FALSE], steady |-> [ip \in Addresses |-> TRUE],
     seen |-> [ip \in Addresses |-> <<>>],
     bans |-> [ip \in Addresses |-> 0], banned_at |-> [ip \in Addresses |-> 0],
     fresh |-> [ip \in Addresses |-> 0]]

InitData ==
    /\ votecodes = [id \in CodeIds |->
                      [code |-> InitialCodes[id], used |-> FALSE,
                       disabled |-> FALSE, continuation_key |-> NULL]]
    /\ votes = <<>>
    /\ failed_ip = [ip \in Addresses |-> NoList]
    /\ banned_ip = [ip \in Addresses |-> <<>>]
    /\ cache = {}
    /\ now = 0
    /\ redis_up = TRUE
    /\ issued = 0
    /\ req = [p \in Procs |-> Idle]
    /\ hist = NoHistory

Init ==
    /\ InitData
    /\ teachers = [t \in TeacherIds |-> [disabled |-> (t = 2)]]
    /\ settings = [n \in SettingNames |-> FALSE]
    /\ MAX_FAILED_ATTEMPTS = EnvMaxFailed

\* no request is in flight
Quiet == \A q \in Procs : req[q].pc = "idle"

FirstProc == CHOOSE p \in Procs : \A q \in Procs : p <= q

\* verify, solve and submit on both vote codes, one request at a time; the
\* admin disables and enables codes and locks and unlocks voting at any moment
Next ==
    \/ \E r \in VerifyRequests : Quiet /\ ban_middleware(FirstProc, r)
    \/ \E r \in SolveRequests : Quiet /\ ban_middleware(FirstProc, r)
    \/ \E r \in SubmitRequests : Quiet /\ ban_middleware(FirstProc, r)
    \/ \E p \in Procs : verify_vote_select(p)
    \/ \E p \in Procs : verify_vote_commit(p)
    \/ \E p \in Procs : solve_vote_select(p)
    \/ \E p \in Procs : solve_vote_commit(p)
    \/ \E p \in Procs : submit_vote_select(p)
    \/ \E p \in Procs : submit_vote_commit(p)
    \/ \E p \in Procs : submit_vote_commit_fails(p)
    \/ \E p \in Procs : register_failed(p)
    \/ \E p \in Procs : Return(p)
    \/ \E id \in CodeIds, enable \in BOOLEAN : disable_votecode(id, enable)
    \/ \E e \in BOOLEAN : edit_setting("vote_locked", e)

Spec == Init /\ [][Next]_vars

----------------------------------------------------------------------------
(* Every endpoint and every phase switch, for one voter's code *)

GateCodes == {InitialCodes[1], "ZZZZ0000"}

GateRequests ==
    {r \in VerifyRequests : r.vote_code \in GateCodes}
        \cup SolveRequests \cup TeachersRequests \cup OutcomeRequests
        \cup SubmitRequests

NextGate ==
    \/ \E r \in GateRequests : Quiet /\ ban_middleware(FirstProc, r)
    \/ \E p \in Procs : verify_vote_select(p)
    \/ \E p \in Procs : verify_vote_commit(p)
    \/ \E p \in Procs : solve_vote_select(p)
    \/ \E p \in Procs : solve_vote_commit(p)
    \/ \E p \in Procs : get_teachers(p)
    \/ \E p \in Procs : get_vote_outcome(p)
    \/ \E p \in Procs : submit_vote_select(p)
    \/ \E p \in Procs : submit_vote_commit(p)
    \/ \E p \in Procs : submit_vote_commit_fails(p)
    \/ \E p \in Procs : register_failed(p)
    \/ \E p \in Procs : Return(p)
    \/ \E n \in SettingNames, e \in BOOLEAN : edit_setting(n, e)

SpecGate == Init /\ [][NextGate]_vars

----------------------------------------------------------------------------
(* Two voters' requests racing on one vote code *)

RaceChallenges ==
    {Token(i) : i \in 1..MaxTok} \cup {Awaiting(Token(i)) : i \in 1..MaxTok}

RaceRequests ==
    {Request("verify", h, InitialCodes[1], "", 0, <<>>) : h \in Hosts}
      \cup {Request("solve", h, "", ch, 0, <<>>) : h \in Hosts, ch \in RaceChallenges}
      \cup {Request("submit", h, "", ch, 0, <<[tid |-> "1", overall |-> 7]>>) :
              h \in Hosts, ch \in RaceChallenges}

NextRace ==
    \/ \E p \in Procs, r \in RaceRequests : ban_middleware(p, r)
    \/ \E p \in Procs : verify_vote_select(p)
    \/ \E p \in Procs : verify_vote_commit(p)
    \/ \E p \in Procs : solve_vote_select(p)
    \/ \E p \in Procs : solve_vote_commit(p)
    \/ \E p \in Procs : submit_vote_select(p)
    \/ \E p \in Procs : submit_vote_commit(p)
    \/ \E p \in Procs : submit_vote_commit_fails(p)
    \/ \E p \in Procs : register_failed(p)
    \/ \E p \in Procs : Return(p)

SpecRace == Init /\ [][NextRace]_vars

----------------------------------------------------------------------------
(* anti_abuse.py on its own: failures of one address as time passes, with  *)
(* the threshold the code defaults to                                      *)

InitGuard ==
    /\ InitData
    /\ teachers = [t \in TeacherIds |-> [disabled |-> (t = 2)]]
    /\ settings = [n \in SettingNames |-> FALSE]
    /\ MAX_FAILED_ATTEMPTS = DefaultMaxFailed

\* await register_failed_ip(ip)
call_register_failed_ip(ip) ==
    /\ hist.calls[ip] < MaxCalls
    /\ LET out == register_failed_ip(failed_ip[ip], banned_ip[ip], now,
                                     MAX_FAILED_ATTEMPTS)
       IN  /\ failed_ip' = [failed_ip EXCEPT ![ip] = out.list]
           /\ banned_ip' = [banned_ip EXCEPT ![ip] = out.ban]
           /\ hist' = [hist EXCEPT
                         !.calls[ip] = @ + 1,
                         !.fresh[ip] = @ + 1,
                         !.last[ip] = now,
                         !.ret[ip] = out.ret,
                         !.bans[ip] = IF out.ret THEN @ + 1 ELSE @,
                         !.banned_at[ip] = IF out.ret THEN now ELSE @,
                         !.steady[ip] =
                             @ /\ (hist.calls[ip] = 0
                                     \/ now - hist.last[ip] < BAN_DURATION)]
    /\ UNCHANGED <<dbVars, cache, envVars, issued, req>>

\* await is_ip_banned(ip)
call_is_ip_banned(ip) ==
    /\ LET out == is_ip_banned(banned_ip[ip], now)
       IN  /\ banned_ip' = [banned_ip EXCEPT ![ip] = out.record]
           /\ hist' = [hist EXCEPT !.seen[ip] = <<out.banned, out.retry>>]
    /\ UNCHANGED <<dbVars, cache, failed_ip, envVars, issued, req>>

NextGuard ==
    \/ \E ip \in Hosts : call_register_failed_ip(ip)
    \/ \E ip \in Hosts : call_is_ip_banned(ip)
    \/ Tick

SpecGuard == InitGuard /\ [][NextGuard]_vars

----------------------------------------------------------------------------
(* anti_abuse.py under concurrent callers: every await of                  *)
(* register_failed_ip is a step of its own, and the clock may advance      *)
(* between any two of them                                                 *)

\* the callers that are between their first and their last redis command
InFlight == {q \in Procs : req[q].pc \notin {"idle", "done"}}

\* now_iso = utcnow().isoformat(); await r.rpush(key, now_iso)
register_failed_ip_rpush(p, ip) ==
    /\ req[p].pc = "idle"
    /\ hist.calls[ip] < MaxRaceCalls
    /\ failed_ip' = [failed_ip EXCEPT ![ip] = RPUSH(@, now, now)]
    /\ req' = [req EXCEPT ![p] = [Idle EXCEPT !.op = "register_failed_ip",
                                               !.host = ip, !.pc = "expire",
                                               !.peers = InFlight]]
    /\ hist' = [hist EXCEPT !.calls[ip] = @ + 1, !.fresh[ip] = @ + 1,
                            !.last[ip] = now]
    /\ UNCHANGED <<dbVars, cache, banned_ip, envVars, issued>>

\* await r.expire(key, int(BAN_DURATION.total_seconds()))
register_failed_ip_expire(p) ==
    /\ req[p].pc = "expire"
    /\ failed_ip' = [failed_ip EXCEPT ![req[p].host] = EXPIRE(@, BAN_DURATION, now)]
    /\ req' = [req EXCEPT ![p].pc = "lrange"]
    /\ UNCHANGED <<dbVars, cache, banned_ip, envVars, issued, hist>>

\* attempts = await r.lrange(key, 0, -1); the test of len(attempts);
\* ban_until = utcnow() + BAN_DURATION, or return False
register_failed_ip_lrange(p) ==
    /\ req[p].pc = "lrange"
    /\ LET attempts == LRANGE(failed_ip[req[p].host], now)
       IN  IF Len(attempts) >= MAX_FAILED_ATTEMPTS
           THEN req' = [req EXCEPT ![p].pc = "set",
                                   ![p].attempts = Len(attempts),
                                   ![p].ban_until = now + BAN_DURATION]
           ELSE req' = [req EXCEPT ![p].pc = "done", ![p].resp = "False",
                                   ![p].attempts = Len(attempts)]
    /\ UNCHANGED <<dbVars, redisVars, envVars, issued, hist>>

\* await r.set(f"banned_ip:{ip}", ban_until.isoformat(), ex=...): the time
\* to live starts when redis executes the command
register_failed_ip_set(p) ==
    /\ req[p].pc = "set"
    /\ banned_ip' = [banned_ip EXCEPT ![req[p].host] =
                        SET(req[p].ban_until, BAN_DURATION, now)]
    /\ req' = [req EXCEPT ![p].pc = "delete"]
    /\ hist' = [hist EXCEPT !.bans[req[p].host] = @ + 1,
                            !.banned_at[req[p].host] = now]
    /\ UNCHANGED <<dbVars, cache, failed_ip, envVars, issued>>

\* await r.delete(key); return True
register_failed_ip_delete(p) ==
    /\ req[p].pc = "delete"
    /\ failed_ip' = [failed_ip EXCEPT ![req[p].host] = NoList]
    /\ req' = [req EXCEPT ![p].pc = "done", ![p].resp = "True"]
    /\ UNCHANGED <<dbVars, cache, banned_ip, envVars, issued, hist>>

\* the caller goes on: nobody is concurrent with this call any more
register_failed_ip_return(p) ==
    /\ req[p].pc = "done" /\ req[p].op = "register_failed_ip"
    /\ req' = [q \in Procs |->
                 IF q = p THEN Idle ELSE [req[q] EXCEPT !.peers = @ \ {p}]]
    /\ UNCHANGED <<dbVars, redisVars, envVars, issued, hist>>

NextGuardRace ==
    \/ \E p \in Procs, ip \in Hosts : register_failed_ip_rpush(p, ip)
    \/ \E p \in Procs : register_failed_ip_expire(p)
    \/ \E p \in Procs : register_failed_ip_lrange(p)
    \/ \E p \in Procs : register_failed_ip_set(p)
    \/ \E p \in Procs : register_failed_ip_delete(p)
    \/ \E p \in Procs : register_failed_ip_return(p)
    \/ \E ip \in Hosts : call_is_ip_banned(ip)
    \/ Tick

SpecGuardRace == Init /\ [][NextGuardRace]_vars

----------------------------------------------------------------------------
(* reset_ip_ban among the failures of two addresses *)

\* reset_ip_ban deleting the ban record only
reset_ip_ban_ban_only(ip) ==
    /\ banned_ip' = [banned_ip EXCEPT ![ip] = <<>>]
    /\ hist' = [hist EXCEPT !.fresh[ip] = 0]
    /\ UNCHANGED <<dbVars, cache, failed_ip, envVars, issued, req>>

\* await r.delete(f"banned_ip:{ip}"); await r.delete(f"failed_ip:{ip}")
reset_ip_ban(ip) ==
    /\ banned_ip' = [banned_ip EXCEPT ![ip] = <<>>]
    /\ failed_ip' = [failed_ip EXCEPT ![ip] = NoList]
    /\ hist' = [hist EXCEPT !.fresh[ip] = 0]
    /\ UNCHANGED <<dbVars, cache, envVars, issued, req>>

\* the direct calls made so far, over all addresses
AllCalls == hist.calls["10.0.0.1"] + hist.calls["127.0.0.1"]

NextReset ==
    \/ \E ip \in Addresses :
          AllCalls < MaxCalls /\ call_register_failed_ip(ip)
    \/ \E ip \in Addresses : reset_ip_ban(ip)

SpecReset == InitGuard /\ [][NextReset]_vars

----------------------------------------------------------------------------
(* The ban check in front of the endpoints: one voter's requests, with and *)
(* without an X-Forwarded-For header, as time passes                       *)

\* values of the X-Forwarded-For header: absent, or an address of the
\* sender's choosing
ForwardedFor == {"", "127.0.0.1"}

BanRequests ==
    {[r EXCEPT !.xff = x] :
        r \in {v \in VerifyRequests : v.vote_code \in GateCodes},
        x \in ForwardedFor}

NextBan ==
    \/ \E r \in BanRequests : Quiet /\ ban_middleware(FirstProc, r)
    \/ \E p \in Procs : verify_vote_select(p)
    \/ \E p \in Procs : verify_vote_commit(p)
    \/ \E p \in Procs : register_failed(p)
    \/ \E p \in Procs : Return(p)
    \/ Tick

SpecBan == Init /\ [][NextBan]_vars

----------------------------------------------------------------------------
(* Requests while redis comes and goes *)

\* the redis server becomes unreachable, or reachable again
redis_outage(up) ==
    /\ redis_up # up
    /\ redis_up' = up
    /\ UNCHANGED <<dbVars, redisVars, now, MAX_FAILED_ATTEMPTS, issued, req, hist>>

\* ban_middleware when redis is unreachable: await r.get(...) in
\* is_ip_banned raises, nothing catches it, the request ends as a 500
ban_middleware_unreachable(p, r) ==
    /\ req[p].pc = "idle"
    /\ ~redis_up
    /\ req' = [req EXCEPT ![p] =
                 [r EXCEPT !.pc = "done", !.resp = "InternalServerError"]]
    /\ UNCHANGED <<dbVars, redisVars, envVars, issued, hist>>

\* await register_failed_ip(...) when redis is unreachable: r.rpush raises
\* in the handler, the error response is never built
register_failed_unreachable(p) ==
    /\ req[p].pc = "rf"
    /\ ~redis_up
    /\ Goto(p, "done", "InternalServerError")
    /\ UNCHANGED <<dbVars, redisVars, envVars, issued, hist>>

OutageRequests == {v \in VerifyRequests : v.vote_code \in GateCodes}

NextOutage ==
    \/ \E r \in OutageRequests : Quiet /\ ban_middleware(FirstProc, r)
    \/ \E r \in OutageRequests : Quiet /\ ban_middleware_unreachable(FirstProc, r)
    \/ \E p \in Procs : verify_vote_select(p)
    \/ \E p \in Procs : verify_vote_commit(p)
    \/ \E p \in Procs : register_failed(p)
    \/ \E p \in Procs : register_failed_unreachable(p)
    \/ \E p \in Procs : Return(p)
    \/ \E up \in BOOLEAN : redis_outage(up)

SpecOutage == Init /\ [][NextOutage]_vars

----------------------------------------------------------------------------
(* POST /vote/submit with batches of two entries, failing commits and the  *)
(* voting lock: one voter's code, three teachers                           *)

\* teachers 1 and 3 are enabled, 2 is disabled, 4 does not exist
SubmitTeacherIds == {1, 2, 3}

InitSubmit ==
    /\ InitData
    /\ teachers = [t \in SubmitTeacherIds |-> [disabled |-> (t = 2)]]
    /\ settings = [n \in SettingNames |-> FALSE]
    /\ MAX_FAILED_ATTEMPTS = EnvMaxFailed

\* an entry submit_vote accepts, and the entries it must refuse: a disabled
\* teacher, a teacher that does not exist, a key that is no number, the
\* number zero, no overall rating
GoodEntry == [tid |-> "1", overall |-> 7]

BadEntries ==
    { [tid |-> "2", overall |-> 5], [tid |-> "4", overall |-> 5],
      [tid |-> "x", overall |-> 7], [tid |-> "0", overall |-> 5],
      [tid |-> "3", overall |-> None] }

BatchPayloads ==
    {<<GoodEntry>>, <<GoodEntry, [tid |-> "3", overall |-> 4]>>}
        \cup {<<GoodEntry, b>> : b \in BadEntries}
        \cup {<<b, GoodEntry>> : b \in BadEntries}

BatchRequests ==
    {Request("verify", h, InitialCodes[1], "", 0, <<>>) : h \in Hosts}
      \cup {Request("solve", h, "", Token(i), 0, <<>>) : h \in Hosts, i \in 1..MaxTok}
      \cup {Request("submit", h, "", Token(i), 0, d) :
              h \in Hosts, i \in 1..MaxTok, d \in BatchPayloads}

\* the answer to a submit at slot q has been sent and is still on record
Answered(q) == req[q].op = "submit" /\ req[q].pc = "done"

\* one request at a time; a submit may follow an answered submit while the
\* answer to that one is still on record
NextSubmit ==
    \/ \E r \in BatchRequests : Quiet /\ ban_middleware(FirstProc, r)
    \/ \E p \in Procs \ {FirstProc}, r \in BatchRequests :
          /\ r.op = "submit" /\ Answered(FirstProc)
          /\ ban_middleware(p, r)
    \/ \E p \in Procs : verify_vote_select(p)
    \/ \E p \in Procs : verify_vote_commit(p)
    \/ \E p \in Procs : solve_vote_select(p)
    \/ \E p \in Procs : solve_vote_commit(p)
    \/ \E p \in Procs : submit_vote_select(p)
    \/ \E p \in Procs : submit_vote_commit(p)
    \/ \E p \in Procs : submit_vote_commit_fails(p)
    \/ \E p \in Procs : register_failed(p)
    \/ \E p \in Procs : Return(p)
    \/ \E e \in BOOLEAN : edit_setting("vote_locked", e)

SpecSubmit == InitSubmit /\ [][NextSubmit]_vars

----------------------------------------------------------------------------
(* The read-only endpoints, with and without a token, while the admin       *)
(* disables codes                                                           *)

\* what a reader presents: the tokens, one in its stored "awaiting" form, a
\* string of two characters, and nothing at all
ReadChallenges ==
    {Token(i) : i \in 1..MaxTok} \cup {Awaiting(Token(1)), "ab", ""}

\* verify for the first code; solve with that code, the other code or no
\* code at all in its body; the two reads; submit with one good entry
ReadRequests ==
    {r \in VerifyRequests : r.vote_code = InitialCodes[1]}
      \cup {Request("solve", h, c, Token(i), 0, <<>>) :
               h \in Hosts, c \in {InitialCodes[1], InitialCodes[2], "ZZZZ0000"},
               i \in 1..MaxTok}
      \cup {Request("get_teachers", h, "", ch, 0, <<>>) :
               h \in Hosts, ch \in ReadChallenges}
      \cup {Request("get_vote_outcome", h, "", ch, 1, <<>>) :
               h \in Hosts, ch \in ReadChallenges}
      \cup {Request("submit", h, "", Token(i), 0, <<[tid |-> "1", overall |-> 7]>>) :
               h \in Hosts, i \in 1..MaxTok}

NextRead ==
    \/ \E r \in ReadRequests : Quiet /\ ban_middleware(FirstProc, r)
    \/ \E p \in Procs : extract_challenge_from_header(p)
    \/ \E p \in Procs : verify_vote_select(p)
    \/ \E p \in Procs : verify_vote_commit(p)
    \/ \E p \in Procs : solve_vote_select(p)
    \/ \E p \in Procs : solve_vote_commit(p)
    \/ \E p \in Procs : get_teachers(p)
    \/ \E p \in Procs : get_vote_outcome(p)
    \/ \E p \in Procs : submit_vote_select(p)
    \/ \E p \in Procs : submit_vote_commit(p)
    \/ \E p \in Procs : register_failed(p)
    \/ \E p \in Procs : Return(p)
    \/ \E n \in {"vote_public", "vote_public_tokenless"}, e \in BOOLEAN :
          edit_setting(n, e)
    \/ \E e \in BOOLEAN : disable_votecode(1, e)
    \/ disable_votes_for_teacher(TRUE)

SpecRead == Init /\ [][NextRead]_vars

----------------------------------------------------------------------------
(* The averages of the votes the admin has stored *)

NextOutcome ==
    \/ \E t \in SubmitTeacherIds \cup {4} :
          \E o \in {None, 7}, h \in {None, 4, 9} :
             add_vote(t, [overall |-> o, humor |-> h])
    \/ \E t \in SubmitTeacherIds, h \in Hosts :
          /\ Quiet
          /\ ban_middleware(FirstProc, Request("get_vote_outcome", h, "", Token(1), t, <<>>))
    \/ \E p \in Procs : get_vote_outcome(p)
    \/ \E p \in Procs : register_failed(p)
    \/ \E p \in Procs : Return(p)
    \/ \E n \in {"vote_public", "vote_public_tokenless"}, e \in BOOLEAN :
          edit_setting(n, e)

SpecOutcome == InitSubmit /\ [][NextOutcome]_vars

----------------------------------------------------------------------------
(* The admin creates vote codes: POST /add_votecodes and the CSV import *)

\* a row that is enabled whatever the caller passes for disabled
VoteCodes_enabled(code, disabled) ==
    [code |-> code, used |-> FALSE, disabled |-> FALSE, continuation_key |-> NULL]

\* VoteCodes(code=..., disabled=...): used and continuation_key take the
\* column defaults
VoteCodes(code, disabled) ==
    [code |-> code, used |-> FALSE, disabled |-> disabled, continuation_key |-> NULL]

\* a code of 8 random characters that no row of the table holds (the draw
\* is repeated until that is so)
FreshCode(table) == "k3Jd8Qa" \o TokenTail[Len(table)]

\* the for loop of add_votecodes without a custom code
RECURSIVE generate_codes(_, _)
generate_codes(amount, table) ==
    IF amount = 0 THEN table
    ELSE generate_codes(amount - 1, Append(table, VoteCodes(FreshCode(table), FALSE)))

\* POST /add_votecodes, when it stores: the three parameter checks pass and
\* the unique constraint on code is not hit
add_votecodes(amount, grade, code) ==
    /\ ~(amount <= 0 \/ amount > 1000)
    /\ ~(grade < 0 \/ grade > 12)
    /\ ~(code # "" /\ amount # 1)
    /\ Len(votecodes) + amount <= MaxCodes
    /\ IF code # ""
       THEN /\ \A id \in DOMAIN votecodes : votecodes[id].code # code
            /\ votecodes' = Append(votecodes, VoteCodes(code, FALSE))
       ELSE votecodes' = generate_codes(amount, votecodes)
    /\ UNCHANGED <<teachers, settings, votes, redisVars, envVars, issued, req, hist>>

\* the loop of upload_votecodes over the rows of the file: the table as the
\* session sees it after the last row, or <<>> when a row is refused and
\* the handler returns without a commit
RECURSIVE upload_rows(_, _, _)
upload_rows(rows, enable_code_generation, table) ==
    IF rows = <<>> THEN table
    ELSE LET r == Head(rows)
             exists == (\E id \in DOMAIN table : table[id].code = r.code)
                          \/ r.code = ""
             code == IF exists THEN FreshCode(table) ELSE r.code
             disabled == r.disabled # "" /\ Upper(r.disabled) \in {"TRUE", "1"}
         IN  IF (r.code = "" /\ ~enable_code_generation) \/ r.grade = "" THEN <<>>
             ELSE IF ~IsDigit(r.grade) \/ ~(0 < ToInt(r.grade) /\ ToInt(r.grade) <= 12)
             THEN <<>>
             ELSE IF r.gender # "" /\ Upper(r.gender) \notin {"TRUE", "FALSE", "0", "1"}
             THEN <<>>
             ELSE IF ~(enable_code_generation /\ r.code = "") /\ Len(r.code) < 4
             THEN <<>>
             ELSE IF exists /\ ~enable_code_generation THEN <<>>
             ELSE upload_rows(Tail(rows), enable_code_generation,
                              Append(table, VoteCodes(code, disabled)))

\* POST /admin/upload/votecodes, when it stores
upload_votecodes(uploaded_file, enable_code_generation) ==
    /\ Len(votecodes) + Len(uploaded_file) <= MaxCodes
    /\ upload_rows(uploaded_file, enable_code_generation, votecodes) # <<>>
    /\ votecodes' = upload_rows(uploaded_file, enable_code_generation, votecodes)
    /\ UNCHANGED <<teachers, settings, votes, redisVars, envVars, issued, req, hist>>

\* rows of an uploaded file: good ones, with and without the disabled
\* column filled; a code of two characters; no code; a code the table
\* holds; a grade out of range; a gender that is no boolean
CsvRows ==
    { [code |-> "WXYZ", grade |-> "5", gender |-> "", disabled |-> ""],
      [code |-> "WXYZ9", grade |-> "12", gender |-> "1", disabled |-> "true"],
      [code |-> "MNOP", grade |-> "5", gender |-> "false", disabled |-> "no"],
      [code |-> "ab", grade |-> "5", gender |-> "", disabled |-> ""],
      [code |-> "", grade |-> "5", gender |-> "", disabled |-> "1"],
      [code |-> "ABCD1234", grade |-> "5", gender |-> "", disabled |-> ""],
      [code |-> "QRST", grade |-> "0", gender |-> "", disabled |-> ""],
      [code |-> "QRST", grade |-> "5", gender |-> "x", disabled |-> ""] }

NextAdmin ==
    \/ \E amount \in 0..2, grade \in {5, 13}, code \in {"", "ab", "WXYZ", "ABCD1234"} :
          add_votecodes(amount, grade, code)
    \/ \E r1 \in CsvRows, e \in BOOLEAN : upload_votecodes(<<r1>>, e)
    \/ \E r1 \in CsvRows, r2 \in CsvRows, e \in BOOLEAN :
          upload_votecodes(<<r1, r2>>, e)

SpecAdmin == Init /\ [][NextAdmin]_vars

----------------------------------------------------------------------------
(* The two cached reads while the admin changes switches and codes *)

\* a request for which the cache holds a live entry
Cached(r) ==
    \E e \in cache :
        /\ e.op = r.op /\ e.challenge = r.challenge
        /\ e.teacher_id = r.teacher_id /\ now - e.at < 1

\* one request at a time: verify and solve for the first code, the two
\* reads with the first token; a read runs its endpoint function only on a
\* miss, and its response is stored before it is sent; the clock moves
\* once, which is enough for every entry to expire
NextCache ==
    \/ \E h \in Hosts :
          Quiet /\ ban_middleware(FirstProc, Request("verify", h, InitialCodes[1], "", 0, <<>>))
    \/ \E h \in Hosts, i \in 1..MaxTok :
          Quiet /\ ban_middleware(FirstProc, Request("solve", h, "", Token(i), 0, <<>>))
    \/ \E h \in Hosts :
          \/ Quiet /\ ban_middleware(FirstProc, Request("get_teachers", h, "", Token(1), 0, <<>>))
          \/ Quiet /\ ban_middleware(FirstProc, Request("get_vote_outcome", h, "", Token(1), 1, <<>>))
    \/ \E p \in Procs : verify_vote_select(p)
    \/ \E p \in Procs : verify_vote_commit(p)
    \/ \E p \in Procs : solve_vote_select(p)
    \/ \E p \in Procs : solve_vote_commit(p)
    \/ \E p \in Procs : cache_get(p)
    \/ \E p \in Procs : ~Cached(req[p]) /\ get_teachers(p)
    \/ \E p \in Procs : ~Cached(req[p]) /\ get_vote_outcome(p)
    \/ \E p \in Procs : register_failed(p)
    \/ \E p \in Procs : cache_set(p)
    \/ \E p \in Procs :
          /\ req[p].op \in {"get_teachers", "get_vote_outcome"}
                /\ req[p].resp # "Banned" => Cached(req[p])
          /\ Return(p)
    \/ \E n \in {"vote_public", "vote_public_tokenless"}, e \in BOOLEAN :
          edit_setting(n, e)
    \/ \E e \in BOOLEAN : disable_votecode(1, e)
    \/ now = 0 /\ Tick

SpecCache == Init /\ [][NextCache]_vars

----------------------------------------------------------------------------
(* POST /vote/submit with payloads of no, one and two entries *)

\* one request at a time: verify and solve for the first code, then a
\* submit whose body is {}, one entry or two entries
NextPayload ==
    \/ \E h \in Hosts :
          Quiet /\ ban_middleware(FirstProc, Request("verify", h, InitialCodes[1], "", 0, <<>>))
    \/ \E h \in Hosts, i \in 1..MaxTok :
          Quiet /\ ban_middleware(FirstProc, Request("solve", h, "", Token(i), 0, <<>>))
    \/ \E h \in Hosts, i \in 1..MaxTok :
          \E d \in {<<>>, <<GoodEntry>>, <<GoodEntry, [tid |-> "3", overall |-> 4]>>} :
             Quiet /\ ban_middleware(FirstProc, Request("submit", h, "", Token(i), 0, d))
    \/ \E p \in Procs : verify_vote_select(p)
    \/ \E p \in Procs : verify_vote_commit(p)
    \/ \E p \in Procs : solve_vote_select(p)
    \/ \E p \in Procs : solve_vote_commit(p)
    \/ \E p \in Procs : submit_vote_select(p)
    \/ \E p \in Procs : submit_vote_commit(p)
    \/ \E p \in Procs : register_failed(p)
    \/ \E p \in Procs : Return(p)

SpecPayload == InitSubmit /\ [][NextPayload]_vars

----------------------------------------------------------------------------
(* Properties *)

\* process p runs the SELECT of its handler in this step
Selects(p, op) ==
    req[p].pc = "handler" /\ req[p].op = op /\ req'[p].pc # "handler"

\* process p commits in this step
Commits(p, op) ==
    req[p].pc = "commit" /\ req[p].op = op /\ req'[p].pc # "commit"

\* the rows of the vote code a voter typed
RowsOfCode(vote_code) ==
    {id \in CodeIds : votecodes[id].code = Strip(vote_code)}

\* C1: used never goes back from true to false (so it changes false->true
\* at most once); a submit whose handler runs after a submit with the same
\* token has succeeded answers InvalidChallenge and never reaches its commit,
\* so it inserts no Vote row; a verify whose handler runs after a submit for
\* that code has succeeded is rejected and draws no challenge.
C1_SingleUse ==
    [][ /\ \A id \in CodeIds : votecodes[id].used => votecodes'[id].used
        /\ \A p \in Procs :
             (Selects(p, "submit") /\ req[p].challenge \in hist.submitted)
                => /\ req'[p].pc = "done"
                   /\ req'[p].resp = "InvalidChallenge"
                   /\ votes' = votes
        /\ \A p \in Procs :
             (Selects(p, "verify")
                /\ \E id \in RowsOfCode(req[p].vote_code) : hist.batches[id] > 0)
                => /\ req'[p].pc \in {"rf", "done"}
                   /\ req'[p].resp \in {"InvalidCode", "CodeAlreadyUsed"}
                   /\ req'[p].token = ""
                   /\ issued' = issued
      ]_vars

\* C1 witness: a submit with a token that had already been submitted
\* successfully has been answered InvalidChallenge
C1_Witness ==
    \E p \in Procs :
        /\ req[p].op = "submit" /\ req[p].pc = "done"
        /\ req[p].resp = "InvalidChallenge"
        /\ req[p].challenge \in hist.submitted
        /\ Cardinality({id \in CodeIds : hist.batches[id] = 1}) = 1
        /\ Len(votes) = 1

\* C2: whatever the interleaving of the submit requests, at most one
\* submit transaction is committed per vote code (so at most one batch of
\* Vote rows is stored for it).
C2_OneBatchPerCode == \A id \in CodeIds : hist.batches[id] <= 1

\* C3: a vote code is used only after a solve has succeeded for it: submit
\* never consumes a code that is still ISSUED or AWAITING.
C3_UsedOnlyAfterSolve ==
    \A id \in CodeIds : votecodes[id].used => id \in hist.solved

\* the vote codes in state AWAITING with the token of challenge
AwaitingRows(challenge) ==
    {id \in CodeIds : /\ votecodes[id].continuation_key = Awaiting(challenge)
                      /\ ~votecodes[id].used
                      /\ ~votecodes[id].disabled}

\* C4: solve with the token of an AWAITING code goes on to store the bare
\* token on that code and succeeds; solve with any other string answers
\* InvalidChallenge and changes no vote code.
C4_SolveOnlyAwaiting ==
    [][ \A p \in Procs :
          /\ Selects(p, "solve") =>
               IF AwaitingRows(req[p].challenge) # {}
                  /\ Len(req[p].challenge) >= MinChallengeLen
               THEN /\ req'[p].pc = "commit"
                    /\ req'[p].row \in AwaitingRows(req[p].challenge)
               ELSE /\ req'[p].pc = "rf"
                    /\ req'[p].resp = "InvalidChallenge"
                    /\ votecodes' = votecodes
          /\ Commits(p, "solve") =>
               /\ req'[p].resp = "ok"
               /\ votecodes'[req[p].row].continuation_key = req[p].challenge
               /\ \A id \in CodeIds \ {req[p].row} : votecodes'[id] = votecodes[id]
      ]_vars

\* C5: verify on an AWAITING code goes on to its commit with a challenge
\* never drawn before, and the commit stores "awaiting"+challenge and
\* answers ok; afterwards a solve with a challenge verify returned earlier
\* that is not the last one returned for its code answers InvalidChallenge,
\* and a solve that goes on to its commit presents the last challenge
\* returned for that code.
C5_ReVerifyReplacesToken ==
    [][ \A p \in Procs :
          /\ (Selects(p, "verify")
                /\ \E id \in RowsOfCode(req[p].vote_code) :
                      /\ ~votecodes[id].disabled /\ ~votecodes[id].used
                      /\ StartsWith(votecodes[id].continuation_key, "awaiting"))
               => /\ req'[p].pc = "commit"
                  /\ req'[p].token \notin {Token(i) : i \in 1..issued}
                  /\ Len(req'[p].token) = ChallengeLen
          /\ Commits(p, "verify")
               => /\ req'[p].resp = "ok"
                  /\ votecodes'[req[p].row].continuation_key = Awaiting(req[p].token)
          /\ (Selects(p, "solve") /\ req[p].challenge \in hist.returned
                /\ \A id \in CodeIds : hist.latest[id] # req[p].challenge)
               => /\ req'[p].pc = "rf"
                  /\ req'[p].resp = "InvalidChallenge"
          /\ (Selects(p, "solve") /\ req'[p].pc = "commit")
               => hist.latest[req'[p].row] = req[p].challenge
      ]_vars

\* C5 witness: a code was verified twice, and a solve with the first
\* challenge has been refused
C5_Witness ==
    \E p \in Procs, id \in CodeIds :
        /\ req[p].op = "solve" /\ req[p].pc = "rf"
        /\ req[p].resp = "InvalidChallenge"
        /\ req[p].challenge \in hist.returned
        /\ hist.latest[id] # req[p].challenge
        /\ votecodes[id].continuation_key = Awaiting(hist.latest[id])
        /\ hist.solved = {}

VerifyErrors == {"InvalidCode", "CodeAlreadyUsed", "CodeAlreadyVerified"}

\* C6: the SELECT of verify answers InvalidCode when the code is unknown or
\* disabled, CodeAlreadyUsed when it is enabled and used, CodeAlreadyVerified
\* when it is enabled, unused and its continuation_key is present without
\* the "awaiting" prefix; on each of these answers no challenge is drawn, the
\* request never reaches a commit and its steps leave the votecodes table
\* as it is.
C6_VerifyErrors ==
    [][ \A p \in Procs :
          /\ Selects(p, "verify") =>
               LET ids == RowsOfCode(req[p].vote_code) IN
               /\ (\A id \in ids : votecodes[id].disabled)
                     => req'[p].resp = "InvalidCode"
               /\ \A id \in ids :
                    /\ (~votecodes[id].disabled /\ votecodes[id].used)
                          => req'[p].resp = "CodeAlreadyUsed"
                    /\ (/\ ~votecodes[id].disabled /\ ~votecodes[id].used
                        /\ votecodes[id].continuation_key # NULL
                        /\ ~StartsWith(votecodes[id].continuation_key, "awaiting"))
                          => req'[p].resp = "CodeAlreadyVerified"
               /\ req'[p].resp \in VerifyErrors
                     => /\ issued' = issued
                        /\ req'[p].token = ""
                        /\ req'[p].pc \in {"rf", "done"}
          /\ (req[p].op = "verify" /\ req'[p] # req[p]
                /\ req'[p].resp \in VerifyErrors)
               => votecodes' = votecodes
      ]_vars

\* C6 witness: verify has answered CodeAlreadyVerified for a solved code
\* and the code still holds its bare token
C6_Witness ==
    \E p \in Procs, id \in CodeIds :
        /\ req[p].op = "verify" /\ req[p].pc = "done"
        /\ req[p].resp = "CodeAlreadyVerified"
        /\ id \in RowsOfCode(req[p].vote_code)
        /\ votecodes[id].continuation_key = hist.latest[id]
        /\ hist.latest[id] # ""

\* C7: a verify that ends in InvalidCode, CodeAlreadyUsed or
\* CodeAlreadyVerified has called register_failed_ip exactly once.
C7_VerifyErrorsRecorded ==
    \A p \in Procs :
        (req[p].op = "verify" /\ req[p].pc = "done" /\ req[p].resp \in VerifyErrors)
            => req[p].fails = 1

\* C8: a request that ends in InvalidChallenge has called
\* register_failed_ip exactly once.
C8_InvalidChallengeRecorded ==
    \A p \in Procs :
        (req[p].pc = "done" /\ req[p].resp = "InvalidChallenge")
            => req[p].fails = 1

BusinessErrors ==
    {"VotingLocked", "MissingRequiredField", "UnknownOrDisabledTeacher",
     "InvalidTeacherId", "NotYetPublic"}

\* C9: a request answered with a business-rule error is never on its way to
\* register_failed_ip and has not called it: its failure list and ban
\* record are as the request found them.
C9_BusinessErrorsNotRecorded ==
    \A p \in Procs :
        req[p].resp \in BusinessErrors
            => req[p].pc = "done" /\ req[p].fails = 0

\* C9 witness: getOutcome has answered NotYetPublic to an address that has
\* a failure on its list
C9_Witness ==
    \E p \in Procs :
        /\ req[p].op = "get_vote_outcome" /\ req[p].pc = "done"
        /\ req[p].resp = "NotYetPublic"
        /\ Len(failed_ip[req[p].host].list) = 1

\* address ip gets one more direct register_failed_ip call in this step
Registers(ip) == hist'.calls[ip] = hist.calls[ip] + 1

\* what the k-th call for ip has to leave behind, k counted from the state
\* without failure list and ban
NthCallOutcome(ip) ==
    LET k == hist'.calls[ip] IN
    /\ k < MAX_FAILED_ATTEMPTS =>
          /\ ~hist'.ret[ip]
          /\ ~is_ip_banned(banned_ip'[ip], now').banned
    /\ k = MAX_FAILED_ATTEMPTS =>
          /\ hist'.ret[ip]
          /\ banned_ip'[ip] # <<>>
          /\ banned_ip'[ip][1].val = now + BAN_DURATION
          /\ LRANGE(failed_ip'[ip], now') = <<>>
          /\ is_ip_banned(banned_ip'[ip], now').banned

\* C10 as stated: from an address with no failure list and no ban, calls 1
\* to 9 of register_failed_ip return false and leave the address unbanned;
\* call 10 returns true, writes a ban that ends 48 hours from now, empties
\* the failure list, and is_ip_banned then answers true -- whatever time
\* lies between the calls
C10_AnyPace ==
    [][\A ip \in Hosts : Registers(ip) => NthCallOutcome(ip)]_vars

\* C10, amended: the same, provided every call comes less than 48 hours
\* after the one before it (a failure list untouched for 48 hours expires
\* and the count starts again)
C10_TenthFailureBans ==
    [][\A ip \in Hosts :
          Registers(ip) /\ hist'.steady[ip] => NthCallOutcome(ip)]_vars

\* the tenth call has just banned the address, some of the calls having
\* come a day after the one before
C10_Witness ==
    \E ip \in Hosts :
        /\ hist.calls[ip] = DefaultMaxFailed
        /\ hist.steady[ip] /\ hist.ret[ip]
        /\ hist.last[ip] = now /\ now > 0
        /\ is_ip_banned(banned_ip[ip], now).banned
        /\ failed_ip[ip] = NoList

\* C11: while an address has an unexpired ban, a register_failed_ip call for
\* it -- the 11th or any later one -- leaves the time the ban ends as it is
C11_BanClockUntouched ==
    [][\A ip \in Hosts :
          (Registers(ip) /\ is_ip_banned(banned_ip[ip], now).banned)
              => /\ banned_ip'[ip] # <<>>
                 /\ banned_ip'[ip][1].val = banned_ip[ip][1].val]_vars

\* calls p and q overlap: one began while the other was in flight
Concurrent(p, q) == q \in req[p].peers \/ p \in req[q].peers

\* process p has written the ban record and returned True
BanTransition(p) ==
    /\ req[p].op = "register_failed_ip"
    /\ req[p].pc = "done" /\ req[p].resp = "True"

\* C12: of the register_failed_ip calls for one address that overlap, no two
\* both return True and both write the ban record
C12_OneBanTransition ==
    \A p, q \in Procs :
        (p # q /\ Concurrent(p, q) /\ req[p].host = req[q].host)
            => ~(BanTransition(p) /\ BanTransition(q))

\* redis holds a ban record for ip (a key past its time to live is gone)
RecordExists(ip) == GET(banned_ip[ip], now) # <<>>

\* this step is a direct is_ip_banned call for ip
IsBannedStep(ip) ==
    /\ req' = req /\ now' = now /\ failed_ip' = failed_ip
    /\ (hist'.seen[ip] # hist.seen[ip] \/ banned_ip'[ip] # banned_ip[ip])

\* C13: is_ip_banned answers (True, expiry - now) exactly when a ban record
\* exists whose expiry is later than now, and (False, None) otherwise; a
\* record that exists but has expired is deleted by the call; and a ban
\* written 48 hours ago or longer, with no ban written since, is over.  A
\* direct call stores this answer and this record.
C13_BanAnswer ==
    [][\A ip \in Hosts :
          LET a == is_ip_banned(banned_ip[ip], now) IN
          /\ a.banned <=> (RecordExists(ip) /\ banned_ip[ip][1].val > now)
          /\ a.banned => a.retry = banned_ip[ip][1].val - now
          /\ ~a.banned => a.retry = None
          /\ (RecordExists(ip) /\ banned_ip[ip][1].val <= now) => a.record = <<>>
          /\ (now >= hist.banned_at[ip] + BAN_DURATION /\ InFlight = {})
                => ~a.banned
          /\ IsBannedStep(ip) =>
                /\ hist'.seen[ip] = <<a.banned, a.retry>>
                /\ banned_ip'[ip] = a.record]_vars

\* C13 witness: a ban was written, and a direct call has found the record
\* expired, deleted it and answered (False, None)
C13_Witness ==
    \E ip \in Hosts :
        /\ hist.bans[ip] > 0
        /\ banned_ip[ip] = <<>>
        /\ hist.seen[ip] = <<FALSE, None>>

\* this step is a reset_ip_ban call
ResetStep ==
    /\ req' = req /\ now' = now /\ hist'.calls = hist.calls
    /\ (failed_ip' # failed_ip \/ banned_ip' # banned_ip \/ hist'.fresh # hist.fresh)

\* C14: reset_ip_ban(ip) leaves ip without failure list and without ban
\* record, whatever they held, so that is_ip_banned(ip) is false right
\* after it, and leaves the keys of every other address as they are; and of
\* the failures registered after a reset, the first nine do not ban.
C14_Reset ==
    [][ /\ ResetStep =>
             \E ip \in Addresses :
                /\ failed_ip'[ip] = NoList
                /\ banned_ip'[ip] = <<>>
                /\ ~is_ip_banned(banned_ip'[ip], now').banned
                /\ \A other \in Addresses \ {ip} :
                       /\ failed_ip'[other] = failed_ip[other]
                       /\ banned_ip'[other] = banned_ip[other]
        /\ \A ip \in Addresses :
             (Registers(ip) /\ hist'.fresh[ip] < hist'.calls[ip]
                /\ hist'.fresh[ip] < MAX_FAILED_ATTEMPTS)
                => /\ ~hist'.ret[ip]
                   /\ ~is_ip_banned(banned_ip'[ip], now').banned
      ]_vars

\* C14 witness: a banned address was reset and has since had nine failures
\* without a ban, while another address keeps its own failure list
C14_Witness ==
    \E ip \in Addresses : \E other \in Addresses \ {ip} :
        /\ hist.bans[ip] = 1
        /\ hist.fresh[ip] = DefaultMaxFailed - 1
        /\ hist.calls[ip] = 2 * DefaultMaxFailed - 1
        /\ Len(failed_ip[ip].list) = DefaultMaxFailed - 1
        /\ banned_ip[ip] = <<>>
        /\ failed_ip[other] # NoList

\* a request arrives at slot p in this step
Arrives(p) == req[p].pc = "idle" /\ req'[p].pc # "idle"

\* C15: a request that arrives from an address while that address is banned
\* is answered by the ban check with the remaining ban time and never
\* reaches its handler, and no step of it changes a vote code, a vote or a
\* failure list.
C15_BannedRejected ==
    [][\A p \in Procs :
          /\ (Arrives(p) /\ is_ip_banned(banned_ip[req'[p].host], now).banned)
               => /\ req'[p].pc = "done"
                  /\ req'[p].resp = "Banned"
                  /\ req'[p].retry = banned_ip[req'[p].host][1].val - now
          /\ (req[p].resp = "Banned" \/ req'[p].resp = "Banned")
               => /\ votecodes' = votecodes /\ votes' = votes
                  /\ failed_ip' = failed_ip
      ]_vars

\* C16: a request that arrives while redis is unreachable passes the ban
\* check as not banned and goes on to its handler; it is never answered
\* with a failure of the cache.
C16_CacheDownNotBanned ==
    [][\A p \in Procs :
          /\ (Arrives(p) /\ ~redis_up) => req'[p].pc = "handler"
          /\ req'[p].resp # "InternalServerError"
      ]_vars

\* the entry names no enabled teacher by a positive integer, or lacks the
\* overall rating
BadEntry(e) ==
    \/ ~IsDigit(e.tid)
    \/ ToInt(e.tid) <= 0
    \/ ToInt(e.tid) \notin DOMAIN teachers
    \/ teachers[ToInt(e.tid)].disabled
    \/ e.overall = None

HasBadEntry(vote_data) == \E i \in 1..Len(vote_data) : BadEntry(vote_data[i])

\* the vote codes in state CHALLENGED with the token challenge
ChallengedRows(challenge) ==
    {id \in CodeIds : /\ votecodes[id].continuation_key = challenge
                      /\ ~StartsWith(challenge, "awaiting")
                      /\ Len(challenge) >= MinChallengeLen
                      /\ ~votecodes[id].used
                      /\ ~votecodes[id].disabled}

\* C17: a submit whose payload has an entry with a key that is no positive
\* integer, names no teacher or names a disabled teacher, or an entry
\* without overall, wherever in the payload that entry stands, is answered
\* with an error without reaching its commit; no step of it changes the
\* votes or the vote codes, so a code that was CHALLENGED stays so.
C17_AllOrNothing ==
    [][\A p \in Procs :
          /\ (Selects(p, "submit") /\ HasBadEntry(req[p].vote_data))
               => /\ req'[p].pc = "done"
                  /\ req'[p].resp # "ok"
                  /\ ChallengedRows(req[p].challenge) # {}
                        => req'[p].resp \in BusinessErrors
          /\ (req[p].op = "submit" /\ HasBadEntry(req[p].vote_data)
                /\ req'[p] # req[p])
               => /\ votes' = votes
                  /\ votecodes' = votecodes
      ]_vars

\* C17 witness: a batch whose first entry is good and whose second is not
\* has been refused in the loop, the code is still CHALLENGED and no vote
\* is stored
C17_Witness ==
    \E p \in Procs :
        /\ req[p].op = "submit" /\ req[p].pc = "done"
        /\ req[p].resp \in {"InvalidTeacherId", "MissingRequiredField"}
        /\ Len(req[p].vote_data) = 2
        /\ ~BadEntry(req[p].vote_data[1])
        /\ ChallengedRows(req[p].challenge) # {}
        /\ votes = <<>>

\* another slot holds a submit with the same token that was answered resp
AnsweredBefore(p, resp) ==
    \E q \in Procs \ {p} :
        /\ req[q].op = "submit" /\ req[q].pc = "done"
        /\ req[q].resp = resp
        /\ req[q].challenge = req[p].challenge

\* C18: when the commit of a validated submit fails, the request is answered
\* StorageError, no vote is stored and the code keeps used = false and its
\* token; a later submit with that token and a payload without fault, made
\* while voting is not locked, passes every check and reaches its commit.
C18_FailedCommitRetry ==
    [][\A p \in Procs :
          /\ (Commits(p, "submit") /\ req'[p].resp # "ok")
               => /\ req'[p].resp = "StorageError"
                  /\ votes' = votes
                  /\ votecodes' = votecodes
                  /\ req[p].row \in ChallengedRows(req[p].challenge)'
          /\ (Selects(p, "submit") /\ AnsweredBefore(p, "StorageError")
                /\ req[p].challenge \notin hist.submitted
                /\ ~HasBadEntry(req[p].vote_data)
                /\ ~settings["vote_locked"])
               => req'[p].pc = "commit"
      ]_vars

\* C18 witness: a submit was answered StorageError, and a later submit with
\* the same token has stored its votes
C18_Witness ==
    \E p \in Procs :
        /\ req[p].op = "submit" /\ req[p].pc = "done" /\ req[p].resp = "ok"
        /\ AnsweredBefore(p, "StorageError")
        /\ votecodes[req[p].row].used
        /\ Len(votes) = Len(req[p].vote_data)

\* C19: while vote_locked is true, a submit with the token of a CHALLENGED
\* code is answered VotingLocked whatever its payload, stores no vote and
\* leaves the code CHALLENGED; with vote_locked false again, a submit with
\* that token and a payload without fault reaches its commit.
C19_VotingLocked ==
    [][\A p \in Procs :
          /\ (Selects(p, "submit") /\ settings["vote_locked"]
                /\ ChallengedRows(req[p].challenge) # {})
               => /\ req'[p].pc = "done"
                  /\ req'[p].resp = "VotingLocked"
                  /\ votes' = votes
                  /\ votecodes' = votecodes
          /\ (Selects(p, "submit") /\ AnsweredBefore(p, "VotingLocked")
                /\ req[p].challenge \notin hist.submitted
                /\ ~HasBadEntry(req[p].vote_data)
                /\ ~settings["vote_locked"])
               => req'[p].pc = "commit"
      ]_vars

\* C19 witness: a submit with a faulty payload was answered VotingLocked,
\* and after the unlock a submit with the same token has stored its votes
C19_Witness ==
    \E p \in Procs :
        /\ req[p].op = "submit" /\ req[p].pc = "done" /\ req[p].resp = "ok"
        /\ \E q \in Procs \ {p} :
              /\ req[q].op = "submit" /\ req[q].pc = "done"
              /\ req[q].resp = "VotingLocked"
              /\ req[q].challenge = req[p].challenge
              /\ HasBadEntry(req[q].vote_data)
        /\ votecodes[req[p].row].used
        /\ ~settings["vote_locked"]

\* the settings table with vote_locked set to locked, all else as it is
WithLock(locked) == [settings EXCEPT !["vote_locked"] = locked]

\* C20: vote_locked is read by submit only.  verify_vote, verify_challenge
\* (solve, get_teachers) read no setting but vote_public_tokenless; what is
\* left to check is get_vote_outcome: in every state, for every challenge
\* and teacher, its answer -- and with it the failure it registers -- is
\* the same with vote_locked true as with vote_locked false.
C20_LockOnlySubmit ==
    \A ch \in Challenges, t \in TeacherIds :
        LET rows == RowsWithKey(ch, FALSE) IN
        \A id \in (IF rows = {} THEN {0} ELSE rows) :
            LET vote == IF id = 0 THEN Idle ELSE votecodes[id] IN
            get_vote_outcome_check_under(WithLock(TRUE), rows, vote, ch, t)
                = get_vote_outcome_check_under(WithLock(FALSE), rows, vote, ch, t)

\* C21: a get_vote_outcome request whose token belongs to a solved, enabled
\* code, used or not, is answered with the averages when vote_public is
\* enabled and the teacher exists and is enabled, and with NotYetPublic when
\* vote_public is disabled.
C21_PreviewAfterSolve ==
    [][\A p \in Procs :
          LET challenge == req[p].challenge
              solved == {id \in CodeIds :
                            /\ votecodes[id].continuation_key = challenge
                            /\ ~StartsWith(challenge, "awaiting")
                            /\ Len(challenge) >= MinChallengeLen
                            /\ ~votecodes[id].disabled}
          IN  (Selects(p, "get_vote_outcome") /\ solved # {})
                => IF settings["vote_public"]
                   THEN (req[p].teacher_id \in DOMAIN teachers
                            /\ ~teachers[req[p].teacher_id].disabled)
                          => req'[p].resp = "ok"
                   ELSE req'[p].resp = "NotYetPublic"
      ]_vars

\* C22: whatever the three phase switches are, a submit whose token matches
\* no enabled, unused vote code in state CHALLENGED is answered with an error
\* at its checks and never reaches its commit, so it stores nothing.
C22_SubmitNeedsSolved ==
    [][\A p \in Procs :
          (Selects(p, "submit") /\ ChallengedRows(req[p].challenge) = {})
            => /\ req'[p].pc \in {"rf", "done"}
               /\ req'[p].resp # "ok"
               /\ votes' = votes /\ votecodes' = votecodes
      ]_vars

\* C23: while vote_public_tokenless is enabled, get_teachers and
\* get_vote_outcome are answered without a failure being recorded, and with
\* an answer that does not depend on the token: get_teachers with the list,
\* get_vote_outcome with what vote_public and the teacher decide -- for a
\* valid token, an invalid token and no token at all.
C23_TokenlessReads ==
    [][\A p \in Procs :
          (/\ req[p].pc = "handler" /\ req'[p].pc # "handler"
           /\ req[p].op \in {"get_teachers", "get_vote_outcome"}
           /\ settings["vote_public_tokenless"])
            => /\ req'[p].pc = "done"
               /\ failed_ip' = failed_ip
               /\ req'[p].resp =
                    IF req[p].op = "get_teachers" THEN "ok"
                    ELSE IF ~settings["vote_public"] THEN "NotYetPublic"
                    ELSE IF teachers[req[p].teacher_id].disabled
                    THEN "TeacherNotFound"
                    ELSE "ok"
      ]_vars

\* C24: verify_challenge(challenge) as get_teachers calls it (vote_public_tokenless
\* disabled, a token present) answers ok exactly when some enabled vote code
\* has continuation_key equal to the token; a success registers no failure
\* and leaves the failure lists as they are, a failure goes on to register
\* one; and no step of a get_teachers request changes a vote code or a vote.
C24_AuthorizeIsLookup ==
    [][\A p \in Procs :
          /\ (/\ Selects(p, "get_teachers")
              /\ req[p].challenge # ""
              /\ ~settings["vote_public_tokenless"])
               => /\ req'[p].resp = "ok"
                     <=> \E id \in CodeIds :
                            /\ ~votecodes[id].disabled
                            /\ votecodes[id].continuation_key = req[p].challenge
                  /\ req'[p].resp = "ok"
                        => req'[p].pc = "done" /\ failed_ip' = failed_ip
                  /\ req'[p].resp # "ok"
                        => req'[p].pc = "rf" /\ req'[p].resp = "InvalidChallenge"
          /\ (req[p].op = "get_teachers" /\ req'[p] # req[p])
               => votecodes' = votecodes /\ votes' = votes
      ]_vars

\* C24 witness: get_teachers has answered ok to the token of a code that was
\* used and is enabled, with vote_public_tokenless disabled, and no failure
\* is on the caller's list
C24_Witness ==
    \E p \in Procs :
        /\ req[p].op = "get_teachers" /\ req[p].pc = "done"
        /\ req[p].resp = "ok"
        /\ ~settings["vote_public_tokenless"]
        /\ \E id \in CodeIds :
              /\ votecodes[id].continuation_key = req[p].challenge
              /\ votecodes[id].used /\ ~votecodes[id].disabled
        /\ failed_ip[req[p].host] = NoList

\* C25: while a vote code is disabled, a verify for it, and a solve or a
\* submit with its token, is answered with an error at its checks; and no
\* step -- in particular no commit of a request that was in flight when the
\* code was disabled -- changes its used flag or its continuation_key or
\* stores a vote on its behalf.
C25_DisabledFrozen ==
    [][\A id \in CodeIds :
          votecodes[id].disabled
            => /\ \A p \in Procs :
                    (\/ Selects(p, "verify") /\ id \in RowsOfCode(req[p].vote_code)
                     \/ /\ Selects(p, "solve")
                        /\ votecodes[id].continuation_key = Awaiting(req[p].challenge)
                     \/ /\ Selects(p, "submit")
                        /\ votecodes[id].continuation_key = req[p].challenge)
                      => req'[p].pc \in {"rf", "done"} /\ req'[p].resp # "ok"
               /\ votecodes'[id].used = votecodes[id].used
               /\ votecodes'[id].continuation_key = votecodes[id].continuation_key
               /\ \A p \in Procs :
                    (Commits(p, "submit") /\ req[p].row = id) => votes' = votes
      ]_vars

C27_MinimumLength ==
    [][\A id \in DOMAIN votecodes' \ DOMAIN votecodes :
          Len(votecodes'[id].code) >= 4]_vars

\* C28 as stated: every vote code that add_votecodes or the CSV import
\* creates starts with used = false, disabled = false and continuation_key
\* null.
C28_CreatedActive ==
    [][\A id \in DOMAIN votecodes' \ DOMAIN votecodes :
          /\ ~votecodes'[id].used
          /\ ~votecodes'[id].disabled
          /\ votecodes'[id].continuation_key = NULL]_vars

\* C28: every vote code that add_votecodes or the CSV import creates starts
\* with used = false and continuation_key null; one created by add_votecodes
\* starts with disabled = false, one created by the import with disabled as
\* its row of the file says (true for TRUE or 1 in any case, else false).
C28_CreatedUnused ==
    [][/\ \A id \in DOMAIN votecodes' \ DOMAIN votecodes :
             /\ ~votecodes'[id].used
             /\ votecodes'[id].continuation_key = NULL
       /\ \A amount \in 0..2, grade \in {5, 13}, code \in {"", "ab", "WXYZ", "ABCD1234"} :
             add_votecodes(amount, grade, code)
               => \A id \in DOMAIN votecodes' \ DOMAIN votecodes :
                     ~votecodes'[id].disabled
       /\ \A r1 \in CsvRows, e \in BOOLEAN :
             upload_votecodes(<<r1>>, e)
               => /\ Len(votecodes') = Len(votecodes) + 1
                  /\ votecodes'[Len(votecodes) + 1].disabled
                        <=> r1.disabled \in {"true", "TRUE", "1"}
       /\ \A r1 \in CsvRows, r2 \in CsvRows, e \in BOOLEAN :
             upload_votecodes(<<r1, r2>>, e)
               => /\ Len(votecodes') = Len(votecodes) + 2
                  /\ votecodes'[Len(votecodes) + 1].disabled
                        <=> r1.disabled \in {"true", "TRUE", "1"}
                  /\ votecodes'[Len(votecodes) + 2].disabled
                        <=> r2.disabled \in {"true", "TRUE", "1"}
      ]_vars

\* C28 witness: the table holds a code that add_votecodes generated, and two
\* codes of one imported file, one disabled and one not
C28_Witness ==
    /\ Len(votecodes) = 5
    /\ StartsWith(votecodes[3].code, "k3Jd8Qa") /\ ~votecodes[3].disabled
    /\ votecodes[4].code = "WXYZ9" /\ votecodes[4].disabled
    /\ votecodes[5].code = "MNOP" /\ ~votecodes[5].disabled
    /\ \A id \in DOMAIN votecodes :
          ~votecodes[id].used /\ votecodes[id].continuation_key = NULL

\* C29: a solve is answered 404 (Invalid challenge, a failure is recorded)
\* and changes nothing unless the vote code in its body is the enabled code
\* the challenge was issued for: an unknown vote code, or the code of
\* another voter, does not solve even with a valid challenge.
C29_SolveNeedsCode ==
    [][\A p \in Procs :
          (/\ Selects(p, "solve")
           /\ req[p].challenge # ""
           /\ ~\E id \in RowsOfCode(req[p].vote_code) :
                  /\ ~votecodes[id].disabled
                  /\ votecodes[id].continuation_key = Awaiting(req[p].challenge))
            => /\ req'[p].pc = "rf"
               /\ req'[p].resp = "InvalidChallenge"
      ]_vars

\* C30: a disable_all_votescodes step leaves every vote code that is already
\* used as it is, its disabled flag included (so get_teachers still accepts
\* the token of a voter who has voted), and changes only codes that are
\* enabled and unused, setting their disabled flag and nothing else.
C30_DisableAllSparesUsed ==
    [][disable_votes_for_teacher(TRUE)
         => \A id \in CodeIds :
               /\ votecodes[id].used => votecodes'[id] = votecodes[id]
               /\ votecodes'[id] # votecodes[id]
                    => /\ ~votecodes[id].used /\ ~votecodes[id].disabled
                       /\ votecodes'[id] = [votecodes[id] EXCEPT !.disabled = TRUE]
      ]_vars

\* C31: under any interleaving of verify, solve and submit on one code, no
\* step moves the code backwards along ISSUED -> AWAITING -> CHALLENGED ->
\* USED; in particular no verify commit writes an "awaiting" key onto a code
\* that is CHALLENGED or USED.
C31_ForwardOnly ==
    [][\A id \in CodeIds :
          LET rank(vote) ==
                  IF vote.used THEN 3
                  ELSE IF vote.continuation_key = NULL THEN 0
                  ELSE IF StartsWith(vote.continuation_key, "awaiting") THEN 1
                  ELSE 2
          IN  /\ rank(votecodes'[id]) >= rank(votecodes[id])
              /\ \A p \in Procs :
                    (Commits(p, "verify") /\ req[p].row = id)
                      => rank(votecodes[id]) <= 1
      ]_vars

\* C32: tokens are drawn in the order of the SELECTs.  When a verify commits
\* and returns its token as successful, the stored key it replaces is the
\* one it read: it is not "awaiting" + a token that another verify for the
\* same code drew after that SELECT and has meanwhile committed and returned
\* (both read the same key, and both would have succeeded with different
\* tokens).
C32_OneVerifyWins ==
    [][\A p \in Procs :
          (Commits(p, "verify") /\ req'[p].resp = "ok")
            => \A i, j \in 1..MaxTok :
                  (/\ req[p].token = Token(i)
                   /\ Token(j) \in hist.returned
                   /\ votecodes[req[p].row].continuation_key = Awaiting(Token(j)))
                    => j < i
      ]_vars

\* C33: a solve whose SELECT runs while no enabled code holds the committed
\* key "awaiting"+T -- in particular while the verify that drew T has not
\* committed yet -- is answered InvalidChallenge and goes on to record a
\* failure; no step of such a solve changes a vote code; and a solve that
\* goes on to its commit has found the committed key "awaiting"+T.
C33_SolveNeedsCommittedKey ==
    [][\A p \in Procs :
          /\ (/\ Selects(p, "solve")
              /\ ~\E id \in CodeIds :
                     /\ votecodes[id].continuation_key = Awaiting(req[p].challenge)
                     /\ ~votecodes[id].disabled)
               => /\ req'[p].pc = "rf"
                  /\ req'[p].resp = "InvalidChallenge"
          /\ (Selects(p, "solve") /\ req'[p].pc = "commit")
               => votecodes[req'[p].row].continuation_key = Awaiting(req[p].challenge)
          /\ (req[p].op = "solve" /\ req'[p] # req[p] /\ ~Commits(p, "solve"))
               => votecodes' = votecodes
      ]_vars

\* C33 witness: a solve with the token T has been refused while the verify
\* that drew T has still not committed and the code is still ISSUED
C33_Witness ==
    \E p, q \in Procs :
        /\ req[p].op = "solve" /\ req[p].pc = "done"
        /\ req[p].resp = "InvalidChallenge" /\ req[p].fails = 1
        /\ req[q].op = "verify" /\ req[q].pc = "commit"
        /\ req[q].token = req[p].challenge
        /\ votecodes[req[q].row].continuation_key = NULL

\* C34: in every state of the voting flow the continuation_key of each vote
\* code is null, or "awaiting" followed by the token of ChallengeLen
\* characters that the last successful verify for that very code returned,
\* or that token without the prefix.
C34_KeyShape ==
    \A id \in CodeIds :
        \/ votecodes[id].continuation_key = NULL
        \/ /\ hist.latest[id] \in hist.returned
           /\ Len(hist.latest[id]) = ChallengeLen
           /\ votecodes[id].continuation_key
                \in {"awaiting" \o hist.latest[id], hist.latest[id]}

\* C34 witness: one code holds its token, solved, the other code holds
\* another token in the "awaiting" form
C34_Witness ==
    \E id, other \in CodeIds :
        /\ votecodes[id].continuation_key = hist.latest[id]
        /\ hist.latest[id] # ""
        /\ votecodes[other].continuation_key = "awaiting" \o hist.latest[other]
        /\ hist.latest[other] # hist.latest[id]
        /\ id \in hist.solved /\ other \notin hist.solved

\* C35: every get_teachers and get_vote_outcome request that carries a
\* token is answered with what its checks give on the settings and the vote codes as they are when
\* it is answered: after the admin has changed vote_public or
\* vote_public_tokenless or disabled a code, the next request shows it.
C35_ReadsAreFresh ==
    [][\A p \in Procs :
          LET rows == RowsWithKey(req[p].challenge, FALSE) IN
          /\ (req[p].challenge # "" /\ Selects(p, "get_teachers"))
               => req'[p].resp =
                    IF ~settings["vote_public_tokenless"]
                       /\ verify_challenge_rows(req[p].challenge, FALSE, FALSE) = {}
                    THEN "InvalidChallenge" ELSE "ok"
          /\ (req[p].challenge # "" /\ Selects(p, "get_vote_outcome"))
               => \E id \in (IF rows = {} THEN {0} ELSE rows) :
                     req'[p].resp =
                        get_vote_outcome_check(rows,
                            IF id = 0 THEN Idle ELSE votecodes[id],
                            req[p].challenge, req[p].teacher_id)
      ]_vars

\* C36: the ban check consults the ban record of the address under which
\* the request's failures are recorded (the peer address), whatever headers
\* the request carries: a request is answered as banned exactly when its
\* peer address is banned.
C36_SameAddress ==
    [][\A p \in Procs :
          Arrives(p)
            => ((req'[p].resp = "Banned")
                  <=> is_ip_banned(banned_ip[req'[p].host], now).banned)
      ]_vars

\* C37: a register_failed_ip call bans the address only if at least
\* MAX_FAILED_ATTEMPTS of its recorded failures, the one just recorded
\* among them, are at most 48 hours old.
C37_OnlyRecentCount ==
    [][\A ip \in Hosts :
          (Registers(ip) /\ hist'.ret[ip])
            => LET attempts == LRANGE(failed_ip[ip], now)
                   recent == {i \in 1..Len(attempts) :
                                 now - attempts[i] <= BAN_DURATION}
               IN  Cardinality(recent) + 1 >= MAX_FAILED_ATTEMPTS
      ]_vars

\* C38: a vote code becomes used only in a step that stores at least one
\* row in table votes; a successful submit stores exactly one row for every
\* teacher key of its payload; a submit whose payload has no entries is
\* refused and leaves the code unused.
C38_UsedMeansVoted ==
    [][/\ \A id \in CodeIds :
            (~votecodes[id].used /\ votecodes'[id].used)
              => Len(votes') >= Len(votes) + 1
       /\ \A p \in Procs :
            /\ (Commits(p, "submit") /\ req'[p].resp = "ok")
                 => /\ Len(votes') = Len(votes) + Len(req[p].vote_data)
                    /\ \A i \in 1..Len(req[p].vote_data) :
                          votes'[Len(votes) + i].teacher_id
                             = ToInt(req[p].vote_data[i].tid)
            /\ (Selects(p, "submit") /\ req[p].vote_data = <<>>)
                 => req'[p].pc # "commit"
      ]_vars

\* C39: a solve with a token that has been solved already (a vote code
\* holds it as its continuation_key, without the prefix) is answered
\* "Invalid challenge.", changes no vote code, so the code keeps the token
\* as its key, and records a failure for the sender.
C39_NoSecondSolve ==
    [][\A p \in Procs :
          /\ (/\ Selects(p, "solve")
              /\ \E id \in hist.solved :
                    votecodes[id].continuation_key = req[p].challenge)
               => /\ req'[p].pc = "rf"
                  /\ req'[p].resp = "InvalidChallenge"
                  /\ votecodes' = votecodes
          /\ (req[p].op = "solve" /\ req[p].pc = "rf" /\ req'[p].pc # "rf")
               => /\ req'[p].resp = "InvalidChallenge"
                  /\ req'[p].fails = req[p].fails + 1
                  /\ votecodes' = votecodes
                  /\ \/ failed_ip'[req[p].host] # failed_ip[req[p].host]
                     \/ banned_ip'[req[p].host] # banned_ip[req[p].host]
      ]_vars

\* the second solve with a token has been refused and recorded, and the
\* code still holds the token as its key
C39_Witness ==
    \E p \in Procs :
        /\ req[p].op = "solve" /\ req[p].pc = "done"
        /\ req[p].resp = "InvalidChallenge" /\ req[p].fails = 1
        /\ \E id \in hist.solved :
              /\ votecodes[id].continuation_key = req[p].challenge
              /\ ~votecodes[id].used /\ ~votecodes[id].disabled

\* C40: the rows a successful submit stores are determined by its payload
\* alone: one row per entry with the entry's teacher and ratings and nothing
\* of the vote code, the token or the sender, so that submits of the same
\* payload with different vote codes store the same rows.
C40_Anonymous ==
    [][\A p \in Procs :
          (Commits(p, "submit") /\ req'[p].resp = "ok")
            => LET vote_data == req[p].vote_data IN
               /\ Len(votes') = Len(votes) + Len(vote_data)
               /\ SubSeq(votes', 1, Len(votes)) = votes
               /\ \A i \in 1..Len(vote_data) :
                     votes'[Len(votes) + i] =
                        [teacher_id |-> ToInt(vote_data[i].tid),
                         overall |-> vote_data[i].overall,
                         humor |-> IF "humor" \in DOMAIN vote_data[i]
                                   THEN vote_data[i].humor ELSE None,
                         ip_address |-> NULL]
      ]_vars

\* both vote codes have been used to submit, with different tokens, and the
\* rows the two submits stored are the same
C40_Witness ==
    /\ \A id \in CodeIds : votecodes[id].used /\ hist.batches[id] = 1
    /\ Cardinality(hist.submitted) = 2
    /\ Len(votes) = 2
    /\ votes[1] = votes[2]

====
